---- MODULE Spec2Model ----
(***************************************************************************)
(* CheckMyHouse: the ClickHouse client wrapper (src/lib/clickhouse.js),    *)
(* the identifier validation (src/lib/validation.js), the tables, lineage  *)
(* and materialized-views route handlers, and the response cache           *)
(* (src/unnamed/part_023, imported as '@/lib/cache').                      *)
(*                                                                         *)
(* Text is modelled as a sequence of one-character strings, so that the    *)
(* regular expressions of the source are computed character by character.  *)
(* A JavaScript value that may be null is modelled as a sequence of length *)
(* 0 (null) or 1 (the value).                                              *)
(***************************************************************************)
EXTENDS Integers, Sequences, FiniteSets, TLC

VARIABLES
    clickhouseClient,    \* clickhouse.js:13  NoClient (null), else the server the client talks to
    currentConfig,       \* clickhouse.js:14  NoClient (null), else the config last initialised
    systemCapabilities,  \* clickhouse.js:15  None or Some(capability profile)
    cachedVersion,       \* clickhouse.js:377 None or Some(version record)
    cache,               \* part_023:8   ResponseCache.cache: its entries in insertion order
    requestCounts,       \* part_023:9   ResponseCache.requestCounts
    windowStart,         \* part_023:10  ResponseCache.windowStart
    now,                 \* Date.now(), in milliseconds
    versionStale,        \* observation: cachedVersion was probed before the last initClickHouseClient
    capsStale,           \* observation: systemCapabilities was probed before the last initClickHouseClient
    depsProbed,          \* observation: a system.dependencies probe was sent on this connection
    codecProbed,         \* observation: a codec_expression probe was sent on this connection
    execution,           \* clickhouse.js:240, 306 the asynchronous calls in flight and where each stands
    last                 \* observation: the last completed call and what it returned

vars == << clickhouseClient, currentConfig, systemCapabilities, cachedVersion,
           cache, requestCounts, windowStart, now,
           versionStale, capsStale, depsProbed, codecProbed, execution, last >>

connVars == << clickhouseClient, currentConfig, systemCapabilities, cachedVersion,
               versionStale, capsStale, depsProbed, codecProbed >>

cacheVars == << cache, requestCounts, windowStart, now >>

None == << >>

Some(x) == << x >>

IsNull(o) == Len(o) = 0

Val(o) == o[1]

----------------------------------------------------------------------------
(* Characters and the character classes of the source's regular expressions *)

Digits == {"0", "1", "2", "3", "4", "5", "6", "7", "8", "9"}

Lower == {"a", "b", "c", "d", "e", "f", "g", "h", "i", "j", "k", "l", "m",
          "n", "o", "p", "q", "r", "s", "t", "u", "v", "w", "x", "y", "z"}

Upper == {"A", "B", "C", "D", "E", "F", "G", "H", "I", "J", "K", "L", "M",
          "N", "O", "P", "Q", "R", "S", "T", "U", "V", "W", "X", "Y", "Z"}

\* [a-zA-Z0-9_], which is also \w
WordChars == Lower \cup Upper \cup Digits \cup {"_"}

\* \s, as far as the sample texts use it
SpaceChars == {" ", "\t", "\n"}

DigitVal(c) ==
    CASE c = "0" -> 0 [] c = "1" -> 1 [] c = "2" -> 2 [] c = "3" -> 3
      [] c = "4" -> 4 [] c = "5" -> 5 [] c = "6" -> 6 [] c = "7" -> 7
      [] c = "8" -> 8 [] c = "9" -> 9

\* length of the longest run of characters of class cls in s that starts at index i
RECURSIVE RunLen(_, _, _)
RunLen(s, i, cls) ==
    IF i <= Len(s) /\ s[i] \in cls THEN 1 + RunLen(s, i + 1, cls) ELSE 0

\* parseInt(digits, 10)
RECURSIVE ParseInt(_)
ParseInt(ds) ==
    IF Len(ds) = 0 THEN 0
    ELSE 10 * ParseInt(SubSeq(ds, 1, Len(ds) - 1)) + DigitVal(ds[Len(ds)])

\* s with every character outside keep removed
RECURSIVE Strip(_, _)
Strip(s, keep) ==
    IF Len(s) = 0 THEN << >>
    ELSE IF Head(s) \in keep THEN << Head(s) >> \o Strip(Tail(s), keep)
    ELSE Strip(Tail(s), keep)

----------------------------------------------------------------------------
(* src/lib/validation.js *)

\* a replace without the g flag: only the first character outside keep goes
RECURSIVE StripFirst(_, _)
StripFirst(s, keep) ==
    IF Len(s) = 0 THEN << >>
    ELSE IF Head(s) \in keep THEN << Head(s) >> \o StripFirst(Tail(s), keep)
    ELSE Tail(s)

EscapeIdentifierFirstOnly(identifier) == StripFirst(identifier, WordChars)

\* escapeIdentifier: identifier.replace(/[^a-zA-Z0-9_]/g, '')
escapeIdentifier(identifier) == Strip(identifier, WordChars)

\* one field of tableIdentifierSchema: .min(1) and .regex(/^[a-zA-Z0-9_]+$/)
IdentifierFieldOk(s) == Len(s) >= 1 /\ \A i \in 1..Len(s) : s[i] \in WordChars

\* validateTableIdentifier(database, table)
validateTableIdentifier(database, table) ==
    IF IdentifierFieldOk(database) /\ IdentifierFieldOk(table)
    THEN [success |-> TRUE,
          database |-> escapeIdentifier(database),
          table |-> escapeIdentifier(table)]
    ELSE [success |-> FALSE, database |-> << >>, table |-> << >>]

----------------------------------------------------------------------------
(* What the upstream server can answer to one query *)

\* a probe query returns no row, returns a row, or fails with a class of error
ProbeOutcomes == {"rows0", "rows1", "permission_denied", "connection_error"}

IsError(outcome) == outcome \notin {"rows0", "rows1"}

----------------------------------------------------------------------------
(* src/lib/clickhouse.js: checkTableExists, checkColumnExists *)

\* the body of the try block of checkTableExists, lines 428-440:
\* [threw, value, sent] where sent counts the queries sent upstream
CheckTableExistsTry(database, table, outcome) ==
    LET validated == validateTableIdentifier(database, table) IN
    IF ~validated.success THEN [threw |-> FALSE, value |-> FALSE, sent |-> 0]
    ELSE IF IsError(outcome) THEN [threw |-> TRUE, value |-> FALSE, sent |-> 1]
    ELSE [threw |-> FALSE, value |-> (outcome = "rows1"), sent |-> 1]

\* a checkTableExists whose catch block rethrows
CheckTableExistsNoCatch(database, table, outcome) ==
    CheckTableExistsTry(database, table, outcome)

\* checkTableExists(client, database, table): try { ... } catch { return false }
checkTableExists(database, table, outcome) ==
    LET r == CheckTableExistsTry(database, table, outcome) IN
    IF r.threw THEN [threw |-> FALSE, value |-> FALSE, sent |-> r.sent] ELSE r

\* the body of the try block of checkColumnExists, lines 448-461; the column is
\* escaped, not validated
CheckColumnExistsTry(database, table, column, outcome) ==
    LET validated == validateTableIdentifier(database, table)
        escapedColumn == escapeIdentifier(column)
    IN
    IF ~validated.success THEN [threw |-> FALSE, value |-> FALSE, sent |-> 0]
    ELSE IF IsError(outcome) THEN [threw |-> TRUE, value |-> FALSE, sent |-> 1]
    ELSE [threw |-> FALSE, value |-> (outcome = "rows1"), sent |-> 1]

\* checkColumnExists(client, database, table, column)
checkColumnExists(database, table, column, outcome) ==
    LET r == CheckColumnExistsTry(database, table, column, outcome) IN
    IF r.threw THEN [threw |-> FALSE, value |-> FALSE, sent |-> r.sent] ELSE r

----------------------------------------------------------------------------
(* The servers a client can be connected to.  A connection config is the   *)
(* index of its server; each sample server answers SELECT version() with   *)
(* its own string.                                                         *)

ServerVersions ==
    << << "2", "0", ".", "1", ".", "2", ".", "4" >>,    \* 20.1.2.4
       << "2", "1", ".", "0", ".", "3", ".", "2" >>,    \* 21.0.3.2
       << "1", "9", ".", "1", "7", ".", "4" >>,         \* 19.17.4
       << "a", "b", "c" >>,                             \* abc
       << >> >>                                         \* the empty string

Configs == 1..Len(ServerVersions)

NoClient == 0

\* a version query returns the server's row, returns no row, or fails
VersionOutcomes == {"row", "norow", "error"}

----------------------------------------------------------------------------
(* src/lib/clickhouse.js: getClickHouseVersion *)

\* versionString.match(/^(\d+)\.(\d+)\.(\d+)/): << >> for null, else the three
\* captured groups
VersionMatch(s) ==
    LET a == RunLen(s, 1, Digits)
        b == RunLen(s, a + 2, Digits)
        c == RunLen(s, a + b + 3, Digits)
    IN
    IF /\ a >= 1
       /\ Len(s) >= a + 1 /\ s[a + 1] = "."
       /\ b >= 1
       /\ Len(s) >= a + b + 2 /\ s[a + b + 2] = "."
       /\ c >= 1
    THEN << SubSeq(s, 1, a), SubSeq(s, a + 2, a + b + 1),
            SubSeq(s, a + b + 3, a + b + c + 2) >>
    ELSE << >>

\* data[0]?.version || '0.0.0'
VersionStringOf(server, outcome) ==
    IF outcome = "row" /\ Len(ServerVersions[server]) > 0
    THEN ServerVersions[server]
    ELSE << "0", ".", "0", ".", "0" >>

\* lines 393-408: the version record made from a version string
VersionRecord(versionString) ==
    LET versionMatch == VersionMatch(versionString) IN
    IF Len(versionMatch) > 0
    THEN [full |-> versionString,
          major |-> ParseInt(versionMatch[1]),
          minor |-> ParseInt(versionMatch[2]),
          patch |-> ParseInt(versionMatch[3])]
    ELSE [full |-> versionString, major |-> 24, minor |-> 0, patch |-> 0]

\* lines 413-418: the record of the catch block
UnknownVersion ==
    [full |-> << "u", "n", "k", "n", "o", "w", "n" >>, major |-> 19, minor |-> 0, patch |-> 0]

\* the try block, lines 385-410: the query throws, or a record is made of its answer
GetVersionTry(server, outcome) ==
    IF outcome = "error"
    THEN [threw |-> TRUE, value |-> UnknownVersion]
    ELSE [threw |-> FALSE, value |-> VersionRecord(VersionStringOf(server, outcome))]

\* getClickHouseVersion(client): [value, cached, sent, threw] where cached is the
\* new value of cachedVersion and sent counts the queries sent upstream
getClickHouseVersion(cached, server, outcome) ==
    IF ~IsNull(cached)
    THEN [value |-> Val(cached), cached |-> cached, sent |-> 0, threw |-> FALSE]
    ELSE LET t == GetVersionTry(server, outcome)
             v == IF t.threw THEN UnknownVersion ELSE t.value
         IN [value |-> v, cached |-> Some(v), sent |-> 1, threw |-> FALSE]

----------------------------------------------------------------------------
(* src/lib/clickhouse.js: detectSystemCapabilities, getSystemCapabilities *)

\* lines 312-350: four executeQuerySafe probes with maxRetries 1; each flag is the
\* success of its probe
DetectedCapabilities(probes, t) ==
    [hasQueryLog |-> probes[1], hasClusters |-> probes[2],
     hasParts |-> probes[3], hasProcesses |-> probes[4], checkedAt |-> t]

CapabilityProbes == [1..4 -> BOOLEAN]

----------------------------------------------------------------------------
(* Names the handlers pass to the probes, and the sample request parameters *)

SYSTEM == << "s", "y", "s", "t", "e", "m" >>

COLUMNS == << "c", "o", "l", "u", "m", "n", "s" >>

CODEC_EXPRESSION ==
    << "c", "o", "d", "e", "c", "_", "e", "x", "p", "r", "e", "s", "s", "i", "o", "n" >>

DEPENDENCIES == << "d", "e", "p", "e", "n", "d", "e", "n", "c", "i", "e", "s" >>

DB == << "d", "b" >>

RAW == << "r", "a", "w" >>

EVENTS == << "e", "v", "e", "n", "t", "s" >>

\* identifiers a caller may hand to the probes: valid ones, the empty string and
\* ones with characters outside [a-zA-Z0-9_]
SampleIdentifiers ==
    { SYSTEM, DEPENDENCIES, COLUMNS, CODEC_EXPRESSION,
      << >>,                        \* the empty string
      << "a", ";", "b" >>,          \* a;b
      << "x", "'" >> }              \* x'

\* the database= and table= query-string parameters; << >> is absent (or empty)
DatabaseParams == { << >>, DB, RAW }

TableParams == { << >>, << "t", "1" >> }

\* the cookie of a request: a connection config, or none (NoClient).  The cookie
\* is read only when there is no client yet (clickhouse.js:41-43)
Cookies == IF clickhouseClient = NoClient THEN Configs \cup {NoClient} ELSE {NoClient}

----------------------------------------------------------------------------
(* Initial state: the module-level lets of clickhouse.js and the constructor *)
(* of ResponseCache                                                          *)

CacheKeys == {"k1", "k2", "k3"}

CacheData == {"d1", "d2"}

RateIds == {"id1", "id2"}

Init ==
    /\ clickhouseClient = NoClient
    /\ currentConfig = NoClient
    /\ systemCapabilities = None
    /\ cachedVersion = None
    /\ cache = << >>
    /\ requestCounts = [i \in RateIds |-> 0]
    /\ windowStart = 0
    /\ now = 0
    /\ versionStale = FALSE
    /\ capsStale = FALSE
    /\ depsProbed = FALSE
    /\ codecProbed = FALSE
    /\ execution = [pc |-> "idle"]
    /\ last = [op |-> "none"]

----------------------------------------------------------------------------
(* src/lib/clickhouse.js: initClickHouseClient, getClientFromRequest *)

\* initClickHouseClient(config), lines 57-74: systemCapabilities is cleared,
\* cachedVersion is not touched
InitClientEffects(config) ==
    /\ currentConfig' = config
    /\ systemCapabilities' = None
    /\ clickhouseClient' = config
    /\ capsStale' = ~IsNull(systemCapabilities')

initClickHouseClient(config) ==
    /\ InitClientEffects(config)
    /\ UNCHANGED cachedVersion
    /\ versionStale' = ~IsNull(cachedVersion')
    /\ depsProbed' = FALSE
    /\ codecProbed' = FALSE
    /\ last' = [op |-> "initClickHouseClient", client |-> config]
    /\ UNCHANGED << cacheVars, execution >>

\* getClientFromRequest(), lines 39-52: the existing client if there is one, else
\* a client initialised from the cookie, else an error
getClientFromRequest(cookie) ==
    IF clickhouseClient # NoClient
    THEN [threw |-> FALSE, client |-> clickhouseClient, inited |-> FALSE]
    ELSE IF cookie # NoClient
    THEN [threw |-> FALSE, client |-> cookie, inited |-> TRUE]
    ELSE [threw |-> TRUE, client |-> NoClient, inited |-> FALSE]

\* the state change of a getClientFromRequest call that returned g
GetClientEffects(g) ==
    IF g.inited
    THEN InitClientEffects(g.client)
    ELSE UNCHANGED << currentConfig, systemCapabilities, clickhouseClient, capsStale >>

----------------------------------------------------------------------------
(* Calls of the exported probe functions on the current client *)

GetClickHouseVersionCall(outcome) ==
    /\ clickhouseClient # NoClient
    /\ LET r == getClickHouseVersion(cachedVersion, clickhouseClient, outcome) IN
       /\ cachedVersion' = r.cached
       /\ versionStale' = IF r.sent > 0 THEN FALSE ELSE versionStale
       /\ last' = [op |-> "getClickHouseVersion", client |-> clickhouseClient,
                   threw |-> r.threw, value |-> r.value, sent |-> r.sent,
                   outcome |-> IF r.sent > 0 THEN outcome ELSE "notsent",
                   stale |-> versionStale']
    /\ UNCHANGED << clickhouseClient, currentConfig, systemCapabilities,
                    capsStale, depsProbed, codecProbed >>
    /\ UNCHANGED << cacheVars, execution >>

\* getSystemCapabilities(client), lines 360-365, with detectSystemCapabilities
GetSystemCapabilitiesCall(probes) ==
    /\ clickhouseClient # NoClient
    /\ LET detect == IsNull(systemCapabilities)
           caps == IF detect THEN Some(DetectedCapabilities(probes, now))
                   ELSE systemCapabilities
       IN
       /\ systemCapabilities' = caps
       /\ capsStale' = IF detect THEN FALSE ELSE capsStale
       /\ last' = [op |-> "getSystemCapabilities", client |-> clickhouseClient,
                   value |-> Val(caps), sent |-> IF detect THEN 4 ELSE 0,
                   stale |-> capsStale']
    /\ UNCHANGED << clickhouseClient, currentConfig, cachedVersion,
                    versionStale, depsProbed, codecProbed >>
    /\ UNCHANGED << cacheVars, execution >>

CheckTableExistsCall(database, table, outcome) ==
    /\ clickhouseClient # NoClient
    /\ LET r == checkTableExists(database, table, outcome) IN
       last' = [op |-> "checkTableExists", database |-> database, table |-> table,
                outcome |-> outcome, threw |-> r.threw, value |-> r.value,
                sent |-> r.sent]
    /\ depsProbed' = (depsProbed \/ (database = SYSTEM /\ table = DEPENDENCIES))
    /\ UNCHANGED << clickhouseClient, currentConfig, systemCapabilities, cachedVersion,
                    versionStale, capsStale, codecProbed >>
    /\ UNCHANGED << cacheVars, execution >>

CheckColumnExistsCall(database, table, column, outcome) ==
    /\ clickhouseClient # NoClient
    /\ LET r == checkColumnExists(database, table, column, outcome) IN
       last' = [op |-> "checkColumnExists", database |-> database, table |-> table,
                column |-> column, outcome |-> outcome, threw |-> r.threw,
                value |-> r.value, sent |-> r.sent]
    /\ codecProbed' = (codecProbed \/ (database = SYSTEM /\ table = COLUMNS
                                        /\ column = CODEC_EXPRESSION))
    /\ UNCHANGED << clickhouseClient, currentConfig, systemCapabilities, cachedVersion,
                    versionStale, capsStale, depsProbed >>
    /\ UNCHANGED << cacheVars, execution >>

----------------------------------------------------------------------------
(* src/app/api/clickhouse/tables/route.js *)

\* a data query returns its rows or fails
QueryOutcomes == {"ok", "error"}

\* line 31: which columns query the handler picks
ColumnsQueryFor(version, hasCodecColumn) ==
    IF (version.major >= 20 /\ version.minor >= 1) \/ hasCodecColumn
    THEN "extended"
    ELSE "basic"

\* lines 22-58: the details branch, on client g.client
TablesDetails(g, vOut, codecOut, colOut) ==
    LET ver == getClickHouseVersion(cachedVersion, g.client, vOut)
        codec == checkColumnExists(SYSTEM, COLUMNS, CODEC_EXPRESSION, codecOut)
        \* lines 26-37: the catch keeps the basic query
        columnsQuery == IF ver.threw \/ codec.threw THEN "basic"
                        ELSE ColumnsQueryFor(ver.value, codec.value)
    IN
    /\ GetClientEffects(g)
    /\ cachedVersion' = ver.cached
    /\ versionStale' = IF ver.sent > 0 THEN FALSE ELSE versionStale
    /\ codecProbed' = (codec.sent > 0 \/ (~g.inited /\ codecProbed))
    /\ depsProbed' = (~g.inited /\ depsProbed)
    /\ last' = [op |-> "tables",
                status |-> IF colOut = "error" THEN 500 ELSE 200,
                variant |-> columnsQuery, columnQueries |-> 1,
                client |-> g.client, version |-> ver.value,
                hasCodecColumn |-> codec.value,
                versionOutcome |-> IF ver.sent > 0 THEN vOut ELSE "notsent",
                depsSent |-> 0, codecSent |-> codec.sent,
                reprobed |-> (codec.sent > 0 /\ ~g.inited /\ codecProbed)]

\* the response of a request that ran no columns query and sent no probe
TablesPlain(status) ==
    [op |-> "tables", status |-> status, variant |-> "none", columnQueries |-> 0,
     depsSent |-> 0, codecSent |-> 0, reprobed |-> FALSE]

\* GET of the tables route
TablesRequest(cookie, database, table, details) ==
    LET g == getClientFromRequest(cookie) IN
    /\ IF database = << >>
       THEN \* lines 12-17
            /\ last' = TablesPlain(400)
            /\ UNCHANGED << connVars, execution >>
       ELSE IF g.threw
       THEN \* line 19 throws, lines 72-78
            /\ last' = TablesPlain(500)
            /\ UNCHANGED << connVars, execution >>
       ELSE IF table # << >> /\ details
       THEN \E vOut \in VersionOutcomes, codecOut \in ProbeOutcomes, colOut \in QueryOutcomes :
               TablesDetails(g, vOut, codecOut, colOut)
       ELSE \* lines 60-71
            \E tablesOut \in QueryOutcomes :
               /\ GetClientEffects(g)
               /\ codecProbed' = (~g.inited /\ codecProbed)
               /\ depsProbed' = (~g.inited /\ depsProbed)
               /\ last' = TablesPlain(IF tablesOut = "error" THEN 500 ELSE 200)
               /\ UNCHANGED << cachedVersion, versionStale >>
    /\ UNCHANGED << cacheVars, execution >>

TablesRequests ==
    \E cookie \in Cookies, d \in {<< >>, DB}, t \in TableParams, details \in BOOLEAN :
       TablesRequest(cookie, d, t, details)

----------------------------------------------------------------------------
(* The regular expressions of the materialized-views route, lines 76 and 88 *)

\* the backtick character, which a TLA+ string cannot hold
Backtick == "BACKTICK"

\* the class of a backtick or a \w character
IdentChars == WordChars \cup {Backtick}

\* the /i flag, for the letters of the two keywords
UpperOf(c) ==
    CASE c = "f" -> "F" [] c = "r" -> "R" [] c = "o" -> "O" [] c = "m" -> "M"
      [] c = "t" -> "T" [] OTHER -> c

KeywordAt(q, i, kw) ==
    /\ i + Len(kw) - 1 <= Len(q)
    /\ \A k \in 1..Len(kw) : UpperOf(q[i + k - 1]) = kw[k]

\* the optional qualifier and the name, (?:(I+)\.)?(I+), at position p: None, or Some([db, tbl]) where db is
\* None when the optional group did not take part in the match
TableRefAt(q, p) ==
    LET r1 == RunLen(q, p, IdentChars)
        r2 == RunLen(q, p + r1 + 1, IdentChars)
    IN
    IF r1 = 0 THEN None
    ELSE IF p + r1 <= Len(q) /\ q[p + r1] = "." /\ r2 >= 1
    THEN Some([db |-> Some(SubSeq(q, p, p + r1 - 1)),
               tbl |-> SubSeq(q, p + r1 + 1, p + r1 + r2)])
    ELSE Some([db |-> None, tbl |-> SubSeq(q, p, p + r1 - 1)])

\* kw\s+(?:(I+)\.)?(I+) at position i, after a \b when boundary is set
KeywordRefAt(q, i, kw, boundary) ==
    LET sp == RunLen(q, i + Len(kw), SpaceChars) IN
    IF /\ KeywordAt(q, i, kw)
       /\ boundary => (i = 1 \/ q[i - 1] \notin WordChars)
       /\ sp >= 1
    THEN TableRefAt(q, i + Len(kw) + sp)
    ELSE None

\* String.prototype.match without the g flag: the leftmost match
FirstKeywordRef(q, kw, boundary) ==
    LET hits == {i \in 1..Len(q) : ~IsNull(KeywordRefAt(q, i, kw, boundary))} IN
    IF hits = {} THEN None
    ELSE KeywordRefAt(q, CHOOSE i \in hits : \A j \in hits : i <= j, kw, boundary)

\* create_table_query.match of line 76, keyword FROM, no \b
FromMatch(q) == FirstKeywordRef(q, << "F", "R", "O", "M" >>, FALSE)

\* create_table_query.match of line 88, keyword TO after a \b
ToMatch(q) == FirstKeywordRef(q, << "T", "O" >>, TRUE)

\* s.replace(/[c]/g, '')
RECURSIVE RemoveChar(_, _)
RemoveChar(s, c) ==
    IF Len(s) = 0 THEN << >>
    ELSE IF Head(s) = c THEN RemoveChar(Tail(s), c)
    ELSE << Head(s) >> \o RemoveChar(Tail(s), c)

\* lines 78-82 and 90-94: the table a match names, with the backticks removed;
\* << >> when it names none
MatchedTables(m, viewDatabase) ==
    IF IsNull(m) THEN << >>
    ELSE LET db == IF ~IsNull(Val(m).db) THEN RemoveChar(Val(Val(m).db), Backtick)
                   ELSE viewDatabase
             tbl == RemoveChar(Val(m).tbl, Backtick)
         IN IF Len(tbl) > 0 THEN << [database |-> db, table |-> tbl] >> ELSE << >>

----------------------------------------------------------------------------
(* Rows the server can return to the materialized-views and lineage routes *)

\* a JSON value of a row: null, a string, an array of strings, or a number
JNull == [kind |-> "null", v |-> << >>]

JString(chars) == [kind |-> "string", v |-> chars]

JArray(items) == [kind |-> "array", v |-> items]

JNumber == [kind |-> "number", v |-> << >>]

\* JavaScript truthiness of such a value
Truthy(x) == x.kind \in {"array", "number"} \/ (x.kind = "string" /\ Len(x.v) > 0)

MV1 == << "m", "v", "1" >>

TGT == << "t", "g", "t" >>

\* CREATE MATERIALIZED VIEW db.mv1 TO db.tgt AS SELECT a FROM (bt)raw(bt).(bt)events(bt)
CreateMv1 ==
    << "C", "R", "E", "A", "T", "E", " ", "M", "A", "T", "E", "R", "I", "A", "L", "I", "Z",
       "E", "D", " ", "V", "I", "E", "W", " ", "d", "b", ".", "m", "v", "1", " ", "T", "O",
       " ", "d", "b", ".", "t", "g", "t", " ", "A", "S", " ", "S", "E", "L", "E", "C", "T",
       " ", "a", " ", "F", "R", "O", "M", " ", Backtick, "r", "a", "w", Backtick, ".",
       Backtick, "e", "v", "e", "n", "t", "s", Backtick >>

\* CREATE MATERIALIZED VIEW db.mv5 AS SELECT a from events
CreateMv5 ==
    << "C", "R", "E", "A", "T", "E", " ", "M", "A", "T", "E", "R", "I", "A", "L", "I", "Z",
       "E", "D", " ", "V", "I", "E", "W", " ", "d", "b", ".", "m", "v", "5", " ", "A", "S",
       " ", "S", "E", "L", "E", "C", "T", " ", "a", " ", "f", "r", "o", "m", " ", "e", "v",
       "e", "n", "t", "s" >>

\* CREATE MATERIALIZED VIEW db.mv6 AS SELECT 1
CreateMv6 ==
    << "C", "R", "E", "A", "T", "E", " ", "M", "A", "T", "E", "R", "I", "A", "L", "I", "Z",
       "E", "D", " ", "V", "I", "E", "W", " ", "d", "b", ".", "m", "v", "6", " ", "A", "S",
       " ", "S", "E", "L", "E", "C", "T", " ", "1" >>

\* rows of GET_MATERIALIZED_VIEWS (part_022:355-370), in its ORDER BY database, name
SampleViews ==
    << \* 1: no metadata, a CREATE statement with TO and a quoted, qualified FROM
       [database |-> DB, name |-> MV1,
        dependencies_database |-> JArray(<< >>), dependencies_table |-> JArray(<< >>),
        create_table_query |-> JString(CreateMv1)],
       \* 2: singular metadata, no CREATE statement
       [database |-> DB, name |-> << "m", "v", "2" >>,
        dependencies_database |-> JString(RAW), dependencies_table |-> JString(EVENTS),
        create_table_query |-> JString(<< >>)],
       \* 3: array metadata with an empty database and a missing table, unqualified FROM
       [database |-> DB, name |-> << "m", "v", "5" >>,
        dependencies_database |-> JArray(<< << >>, RAW >>),
        dependencies_table |-> JArray(<< EVENTS >>),
        create_table_query |-> JString(CreateMv5)],
       \* 4: no metadata, a CREATE statement with neither FROM nor TO
       [database |-> DB, name |-> << "m", "v", "6" >>,
        dependencies_database |-> JArray(<< >>), dependencies_table |-> JArray(<< >>),
        create_table_query |-> JString(CreateMv6)],
       \* 5: nothing at all
       [database |-> RAW, name |-> << "m", "v", "3" >>,
        dependencies_database |-> JNull, dependencies_table |-> JNull,
        create_table_query |-> JNull],
       \* 6: a malformed row, whose create_table_query is not a string
       [database |-> RAW, name |-> << "m", "v", "4" >>,
        dependencies_database |-> JArray(<< >>), dependencies_table |-> JArray(<< >>),
        create_table_query |-> JNumber] >>

\* the CREATE statements of the sample rows, and the two matches of each, computed
\* once
SampleStatements == {SampleViews[i].create_table_query.v : i \in 1..Len(SampleViews)}

FromMatchOf == [q \in SampleStatements |-> FromMatch(q)]

ToMatchOf == [q \in SampleStatements |-> ToMatch(q)]

\* the view lists a request may get: subsequences of SampleViews, by index
SampleViewLists ==
    { << >>, << 1 >>, << 4 >>, << 1, 2 >>, << 3, 5 >>, << 2, 6 >>, << 1, 5 >>, << 4, 5, 6 >> }

\* rows of system.dependencies: raw.events -> db.mv1 -> db.tgt
DepRows ==
    << [database |-> RAW, table |-> EVENTS, dependent_database |-> DB, dependent_table |-> MV1],
       [database |-> DB, table |-> MV1, dependent_database |-> DB, dependent_table |-> TGT] >>

\* what the tier-1 query of one view can do
Tier1Outcomes ==
    { [kind |-> "error", rows |-> << >>],
      [kind |-> "ok", rows |-> << >>],
      [kind |-> "ok", rows |-> DepRows] }

----------------------------------------------------------------------------
(* src/app/api/clickhouse/materialized-views/route.js *)

\* Array.isArray(x) ? x : [x], lines 61-66
AsList(x) == IF x.kind = "array" THEN x.v ELSE << x.v >>

HasTable(d) == Len(d.table) > 0

\* lines 46-48: the tier-1 edges into the view
Tier1Sources(view, deps) ==
    LET IsSource(d) == d.dependent_database = view.database /\ d.dependent_table = view.name
        hit == SelectSeq(deps, IsSource)
    IN [i \in 1..Len(hit) |-> [database |-> hit[i].database, table |-> hit[i].table]]

\* lines 50-52: the tier-1 edges out of the view
Tier1Targets(view, deps) ==
    LET IsTarget(d) == d.database = view.database /\ d.table = view.name
        hit == SelectSeq(deps, IsTarget)
    IN [i \in 1..Len(hit) |-> [database |-> hit[i].dependent_database,
                               table |-> hit[i].dependent_table]]

\* lines 61-71: the edges the metadata fields of the view name
MetadataSources(view) ==
    LET depDatabases == AsList(view.dependencies_database)
        depTables == AsList(view.dependencies_table)
        all == [i \in 1..Len(depDatabases) |->
                  [database |-> IF Len(depDatabases[i]) > 0 THEN depDatabases[i]
                                ELSE view.database,
                   table |-> IF i <= Len(depTables) THEN depTables[i] ELSE << >>]]
    IN SelectSeq(all, HasTable)

\* line 59: whether the metadata tier is entered
MetadataTierEntered(view, sourceTables) ==
    /\ Len(sourceTables) = 0
    /\ Truthy(view.dependencies_database)
    /\ Truthy(view.dependencies_table)

\* lines 75 and 87: whether a CREATE-statement tier is entered
ParseTierEntered(view, tables) == Len(tables) = 0 /\ Truthy(view.create_table_query)

\* lines 32-102, the try block of one view.  hasDependenciesTable is the probe
\* result of line 26 and t1 is what the tier-1 query of this view does
ProcessViewTry(view, hasDependenciesTable, t1) ==
    LET tier1 == IF ~hasDependenciesTable THEN "absent"
                 ELSE IF t1.kind = "error" THEN "threw" ELSE "ok"
        s1 == IF tier1 = "ok" THEN Tier1Sources(view, t1.rows) ELSE << >>
        g1 == IF tier1 = "ok" THEN Tier1Targets(view, t1.rows) ELSE << >>
        metadata == MetadataTierEntered(view, s1)
        s2 == IF metadata THEN MetadataSources(view) ELSE s1
        from == ParseTierEntered(view, s2)
        \* .match is no function of a value that is not a string
        fromThrows == from /\ view.create_table_query.kind # "string"
        fromTables == IF from /\ ~fromThrows
                      THEN MatchedTables(FromMatchOf[view.create_table_query.v], view.database)
                      ELSE << >>
        s3 == IF Len(fromTables) > 0 THEN fromTables ELSE s2
        to == ~fromThrows /\ ParseTierEntered(view, g1)
        toThrows == to /\ view.create_table_query.kind # "string"
        toTables == IF to /\ ~toThrows
                    THEN MatchedTables(ToMatchOf[view.create_table_query.v], view.database)
                    ELSE << >>
        g3 == IF Len(toTables) > 0 THEN toTables ELSE g1
    IN [database |-> view.database, name |-> view.name,
        threw |-> fromThrows \/ toThrows,
        sources |-> s3, targets |-> g3,
        hasDependenciesTable |-> hasDependenciesTable,
        tier1 |-> tier1, tier1Sources |-> s1, tier1Targets |-> g1,
        metadataEvaluated |-> metadata, fromEvaluated |-> from, toEvaluated |-> to,
        caught |-> FALSE]

\* one view processed without the catch of lines 103-110
ProcessViewNoCatch(view, hasDependenciesTable, t1) ==
    ProcessViewTry(view, hasDependenciesTable, t1)

\* lines 30-111: one view, with the catch of lines 103-110
ProcessView(view, hasDependenciesTable, t1) ==
    LET r == ProcessViewTry(view, hasDependenciesTable, t1) IN
    IF r.threw
    THEN [r EXCEPT !.threw = FALSE, !.sources = << >>, !.targets = << >>, !.caught = TRUE]
    ELSE r

\* lines 21-23: views.filter(v => v.database === database)
FilterViews(views, database) ==
    LET Keep(i) == SampleViews[i].database = database IN
    IF database = << >> THEN views ELSE SelectSeq(views, Keep)

\* a handler that sends the existence probe once for each view it processes
MVProbeCallsPerView(views) == Len(views)

\* line 26: the existence probe is sent once, before the views are processed
MVProbeCalls(views) == 1

\* the response of a request that failed before any probe
MVFailed ==
    [op |-> "mv", status |-> 500, listed |-> FALSE, rows |-> << >>, views |-> << >>,
     total |-> 0, depsSent |-> 0, codecSent |-> 0, reprobed |-> FALSE]

\* lines 25-117, for the filtered views, the probe answer and the tier-1 answers
MVRespond(g, views, probeOut, t1) ==
    LET probe == checkTableExists(SYSTEM, DEPENDENCIES, probeOut)
        viewsWithDeps == [i \in 1..Len(views) |->
                            ProcessView(SampleViews[views[i]], probe.value, t1[i])]
        rejected == \E i \in 1..Len(views) : viewsWithDeps[i].threw
    IN
    /\ GetClientEffects(g)
    /\ depsProbed' = TRUE
    /\ codecProbed' = (~g.inited /\ codecProbed)
    /\ UNCHANGED << cachedVersion, versionStale >>
    /\ last' = [op |-> "mv", status |-> IF rejected THEN 500 ELSE 200,
                listed |-> TRUE, rows |-> views,
                views |-> IF rejected THEN << >> ELSE viewsWithDeps,
                total |-> IF rejected THEN 0 ELSE Len(viewsWithDeps),
                depsSent |-> MVProbeCalls(views) * probe.sent, codecSent |-> 0,
                reprobed |-> (~g.inited /\ depsProbed)]

\* the tier-1 answers are drawn only when the probe found the table
Tier1Answers(n, probeOut) ==
    IF checkTableExists(SYSTEM, DEPENDENCIES, probeOut).value THEN [1..n -> Tier1Outcomes]
    ELSE {[i \in 1..n |-> [kind |-> "error", rows |-> << >>]]}

\* GET of the materialized-views route; lists are the row lists the view query
\* may return
MVRequest(cookie, database, lists) ==
    LET g == getClientFromRequest(cookie) IN
    /\ IF g.threw
       THEN \* line 10 throws, lines 118-124
            /\ last' = MVFailed
            /\ UNCHANGED << connVars, execution >>
       ELSE \/ \* line 13 throws
               /\ GetClientEffects(g)
               /\ depsProbed' = (~g.inited /\ depsProbed)
               /\ codecProbed' = (~g.inited /\ codecProbed)
               /\ UNCHANGED << cachedVersion, versionStale >>
               /\ last' = MVFailed
            \/ \E list \in lists, probeOut \in {"rows0", "rows1", "permission_denied"} :
                  LET views == FilterViews(list, database) IN
                  \E t1 \in Tier1Answers(Len(views), probeOut) :
                     MVRespond(g, views, probeOut, t1)
    /\ UNCHANGED << cacheVars, execution >>

MVRequests(lists) ==
    \E cookie \in Cookies, d \in DatabaseParams : MVRequest(cookie, d, lists)

----------------------------------------------------------------------------
(* src/app/api/clickhouse/lineage/route.js, the handler of lines 1-135 *)

\* the module '@/lib/queries' exports GET_DEPENDENCIES_FROM_VIEWS, the name imported
\* at line 3 (VERSION_COMPATIBILITY_CHANGES.md, line 55); were it undefined, line 65
\* would throw a TypeError for every request that names a database
GetDependenciesFromViewsExported == TRUE

\* rows of the tables query of lines 13-29
LineageTables ==
    << [database |-> DB, table |-> MV1, engine |-> "MaterializedView"],
       [database |-> DB, table |-> TGT, engine |-> "MergeTree"],
       [database |-> RAW, table |-> EVENTS, engine |-> "MergeTree"] >>

\* rows of the view query of lines 66-77
ViewDepRows == << [database |-> RAW, table |-> EVENTS, dependent_table |-> MV1] >>

LineageDepsOutcomes ==
    { [kind |-> "error", rows |-> << >>],
      [kind |-> "ok", rows |-> << >>],
      [kind |-> "ok", rows |-> DepRows] }

LineageViewOutcomes ==
    { [kind |-> "error", rows |-> << >>],
      [kind |-> "ok", rows |-> << >>],
      [kind |-> "ok", rows |-> ViewDepRows] }

\* the template literal database.table
Dotted(database, table) == database \o << "." >> \o table

\* lines 60-97: the dependencies after the view-metadata fallback
LineageFallback(database, dependencies, viewOut) ==
    IF database # << >> /\ ~GetDependenciesFromViewsExported
    THEN dependencies    \* line 65 throws a TypeError, caught at line 93
    ELSE IF viewOut.kind = "error"
    THEN dependencies    \* line 79 throws, caught at line 93
    ELSE [i \in 1..Len(viewOut.rows) |->
            [database |-> viewOut.rows[i].database, table |-> viewOut.rows[i].table,
             dependent_database |-> viewOut.rows[i].database,
             dependent_table |-> viewOut.rows[i].dependent_table]]

\* lines 31-97: [threw, dependencies, tier1, fallback]
LineageDependencies(database, hasDependenciesTable, depsOut, viewOut) ==
    LET tier1 == IF ~hasDependenciesTable THEN "absent"
                 ELSE IF depsOut.kind = "error" THEN "threw" ELSE "ok"
        deps1 == IF tier1 = "ok" THEN depsOut.rows ELSE << >>
    IN
    IF tier1 = "threw"
    THEN \* line 56 assigns to the const of line 33: the catch block throws a TypeError
         [threw |-> TRUE, dependencies |-> << >>, tier1 |-> tier1, fallback |-> FALSE]
    ELSE IF ~hasDependenciesTable \/ Len(deps1) = 0
    THEN [threw |-> FALSE, dependencies |-> LineageFallback(database, deps1, viewOut),
          tier1 |-> tier1, fallback |-> TRUE]
    ELSE [threw |-> FALSE, dependencies |-> deps1, tier1 |-> tier1, fallback |-> FALSE]

\* the response of a lineage request that failed before any probe
LineageFailed ==
    [op |-> "lineage", status |-> 500, tier1 |-> "none", fallback |-> FALSE,
     nodes |-> << >>, edges |-> << >>,
     depsSent |-> 0, codecSent |-> 0, reprobed |-> FALSE]

\* lines 31-127, after the tables query returned
LineageRespond(g, database, probeOut, depsOut, viewOut) ==
    LET probe == checkTableExists(SYSTEM, DEPENDENCIES, probeOut)
        d == LineageDependencies(database, probe.value, depsOut, viewOut)
        nodes == [i \in 1..Len(LineageTables) |->
                    [id |-> Dotted(LineageTables[i].database, LineageTables[i].table),
                     type |-> IF LineageTables[i].engine = "MaterializedView"
                              THEN "materialized_view" ELSE "table"]]
        edges == [i \in 1..Len(d.dependencies) |->
                    [source |-> Dotted(d.dependencies[i].database, d.dependencies[i].table),
                     target |-> Dotted(d.dependencies[i].dependent_database,
                                       d.dependencies[i].dependent_table)]]
    IN
    /\ GetClientEffects(g)
    /\ depsProbed' = (probe.sent > 0 \/ (~g.inited /\ depsProbed))
    /\ codecProbed' = (~g.inited /\ codecProbed)
    /\ UNCHANGED << cachedVersion, versionStale >>
    /\ last' = [op |-> "lineage", status |-> IF d.threw THEN 500 ELSE 200,
                tier1 |-> d.tier1, fallback |-> d.fallback,
                nodes |-> IF d.threw THEN << >> ELSE nodes,
                edges |-> IF d.threw THEN << >> ELSE edges,
                depsSent |-> probe.sent, codecSent |-> 0,
                reprobed |-> (probe.sent > 0 /\ ~g.inited /\ depsProbed)]

\* the answers of the system.dependencies query, drawn only when it is sent
LineageDepsAnswers(probeOut) ==
    IF checkTableExists(SYSTEM, DEPENDENCIES, probeOut).value THEN LineageDepsOutcomes
    ELSE {[kind |-> "error", rows |-> << >>]}

\* the answers of the view query, drawn only when it is sent
LineageViewAnswers(database, probeOut, depsOut) ==
    IF LineageDependencies(database, checkTableExists(SYSTEM, DEPENDENCIES, probeOut).value,
                           depsOut, [kind |-> "error", rows |-> << >>]).fallback
       /\ (database = << >> \/ GetDependenciesFromViewsExported)
    THEN LineageViewOutcomes
    ELSE {[kind |-> "error", rows |-> << >>]}

\* GET of the lineage route
LineageRequest(cookie, database) ==
    LET g == getClientFromRequest(cookie) IN
    /\ IF g.threw
       THEN \* line 10 throws, lines 128-134
            /\ last' = LineageFailed
            /\ UNCHANGED << connVars, execution >>
       ELSE \/ \* line 24 throws
               /\ GetClientEffects(g)
               /\ depsProbed' = (~g.inited /\ depsProbed)
               /\ codecProbed' = (~g.inited /\ codecProbed)
               /\ UNCHANGED << cachedVersion, versionStale >>
               /\ last' = LineageFailed
            \/ \E probeOut \in {"rows0", "rows1", "permission_denied"} :
                  \E depsOut \in LineageDepsAnswers(probeOut) :
                     \E viewOut \in LineageViewAnswers(database, probeOut, depsOut) :
                        LineageRespond(g, database, probeOut, depsOut, viewOut)
    /\ UNCHANGED << cacheVars, execution >>

LineageRequests ==
    \E cookie \in Cookies, d \in DatabaseParams : LineageRequest(cookie, d)

----------------------------------------------------------------------------
(* src/unnamed/part_023 (lib/cache.js): ResponseCache.  The Map this.cache  *)
(* is the sequence of its entries in insertion order, each with its key;    *)
(* now is Date.now() in milliseconds.                                       *)

\* the clock advances by TickMs up to MaxNow
TickMs == 1000

MaxNow == 3000

\* set is called with a ttl of 0..MaxTtl seconds
MaxTtl == 1

\* get is not called on an entry that already has MaxHits hits
MaxHits == 2

\* the size above which set runs cleanup: 1000 at line 57, scaled to the sample keys
HardCap == 2

\* the size cleanup evicts down to: 500 at lines 72 and 76, scaled likewise
SoftCap == 1

\* Map.prototype.has
MapHas(m, key) == \E i \in 1..Len(m) : m[i].key = key

\* Map.prototype.get of a key the map has
MapGet(m, key) == m[CHOOSE i \in 1..Len(m) : m[i].key = key]

\* Map.prototype.set: a key the map has keeps its position, a new key goes last
MapSet(m, entry) ==
    IF MapHas(m, entry.key)
    THEN [i \in 1..Len(m) |-> IF m[i].key = entry.key THEN entry ELSE m[i]]
    ELSE Append(m, entry)

\* Map.prototype.delete of every key in keys
MapDelete(m, keys) ==
    LET Kept(e) == e.key \notin keys IN SelectSeq(m, Kept)

\* Array.prototype.sort with (a, b) => a.lastAccessed - b.lastAccessed, which is
\* stable: an insertion sort that puts an entry after its ties
RECURSIVE SortByLastAccessed(_)
SortByLastAccessed(entries) ==
    IF Len(entries) = 0 THEN << >>
    ELSE LET n == Len(entries)
             x == entries[n]
             sorted == SortByLastAccessed(SubSeq(entries, 1, n - 1))
             Before(e) == e.lastAccessed <= x.lastAccessed
             After(e) == e.lastAccessed > x.lastAccessed
         IN SelectSeq(sorted, Before) \o << x >> \o SelectSeq(sorted, After)

\* a cleanup that evicts the most recently accessed entries first
CleanupNewestFirst(m, t) ==
    LET Live(e) == ~(t > e.expiresAt)
        live == SelectSeq(m, Live)
        entries == SortByLastAccessed(live)
        toRemove == SubSeq(entries, SoftCap + 1, Len(entries))
    IN IF Len(live) > SoftCap
       THEN MapDelete(live, {toRemove[i].key : i \in 1..Len(toRemove)})
       ELSE live

\* cleanup(), lines 63-79, at time t
cleanup(m, t) ==
    LET Live(e) == ~(t > e.expiresAt)
        live == SelectSeq(m, Live)
        entries == SortByLastAccessed(live)
        toRemove == SubSeq(entries, 1, Len(entries) - SoftCap)
    IN IF Len(live) > SoftCap
       THEN MapDelete(live, {toRemove[i].key : i \in 1..Len(toRemove)})
       ELSE live

\* the entry set(key, data, ttlSeconds) makes at time t, lines 46-52
NewEntry(key, data, ttlSeconds, t) ==
    [key |-> key, data |-> data, expiresAt |-> t + ttlSeconds * 1000,
     createdAt |-> t, lastAccessed |-> t, hits |-> 0]

\* the entries of m that are expired at time t, in the sense of lines 33 and 66
Expired(m, t) ==
    LET Gone(e) == t > e.expiresAt IN SelectSeq(m, Gone)

\* set(key, data, ttlSeconds), lines 45-59, at time t: the new table
set(m, key, data, ttlSeconds, t) ==
    LET entry == NewEntry(key, data, ttlSeconds, t)
        stored == MapSet(m, entry)
    IN IF Len(stored) > HardCap THEN cleanup(stored, t) ELSE stored

\* a get that treats an entry as expired from the instant of its expiry
GetExpiredAtExpiry(m, key, t) ==
    IF ~MapHas(m, key) THEN [value |-> None, cache |-> m, found |-> "miss"]
    ELSE LET entry == MapGet(m, key) IN
         IF t >= entry.expiresAt
         THEN [value |-> None, cache |-> MapDelete(m, {key}), found |-> "expired"]
         ELSE [value |-> Some(entry.data),
               cache |-> MapSet(m, [entry EXCEPT !.hits = @ + 1, !.lastAccessed = t]),
               found |-> "hit"]

\* get(key), lines 27-40, at time t: [value, cache, found] where value is None
\* for null and cache is the new table
get(m, key, t) ==
    IF ~MapHas(m, key) THEN [value |-> None, cache |-> m, found |-> "miss"]
    ELSE LET entry == MapGet(m, key) IN
         IF t > entry.expiresAt
         THEN [value |-> None, cache |-> MapDelete(m, {key}), found |-> "expired"]
         ELSE [value |-> Some(entry.data),
               cache |-> MapSet(m, [entry EXCEPT !.hits = @ + 1, !.lastAccessed = t]),
               found |-> "hit"]

CacheSet(key, data, ttlSeconds) ==
    /\ cache' = set(cache, key, data, ttlSeconds, now)
    /\ last' = [op |-> "set", key |-> key, data |-> data, ttl |-> ttlSeconds,
                stored |-> Len(MapSet(cache, NewEntry(key, data, ttlSeconds, now))),
                expired |-> Len(Expired(cache, now))]
    /\ UNCHANGED << requestCounts, windowStart, now >>
    /\ UNCHANGED << connVars, execution >>

CacheGet(key) ==
    /\ MapHas(cache, key) => MapGet(cache, key).hits < MaxHits
    /\ LET r == get(cache, key, now) IN
       /\ cache' = r.cache
       /\ last' = [op |-> "get", key |-> key, value |-> r.value, found |-> r.found]
    /\ UNCHANGED << requestCounts, windowStart, now >>
    /\ UNCHANGED << connVars, execution >>

\* time passes
Tick ==
    /\ now < MaxNow
    /\ now' = now + TickMs
    /\ last' = [op |-> "tick"]
    /\ UNCHANGED << cache, requestCounts, windowStart >>
    /\ UNCHANGED << connVars, execution >>

----------------------------------------------------------------------------
(* src/unnamed/part_023 (lib/cache.js): ResponseCache.generateKey.  A       *)
(* params object is the sequence of its [key, value] properties in the      *)
(* order they were inserted, with no key twice.                             *)

\* a params object has at most MaxParams properties
MaxParams == 3

\* property names of the sample requests: a, b, ab, B, 9, 10
ParamNames ==
    { << "a" >>, << "b" >>, << "a", "b" >>, << "B" >>, << "9" >>, << "1", "0" >> }

ParamValues == { << "x" >>, << "1", "0" >> }

KeyPrefixes == { << "/", "a" >>, << "/", "b" >> }

\* the UTF-16 code unit of a character of the samples
CodeUnit(c) ==
    CASE c = "/" -> 47 [] c = "0" -> 48 [] c = "1" -> 49 [] c = "9" -> 57
      [] c = "B" -> 66 [] c = "a" -> 97 [] c = "b" -> 98 [] c = "x" -> 120
      [] OTHER -> 0

\* a < b in the order of Array.prototype.sort without a comparator: by code units
RECURSIVE StringLess(_, _)
StringLess(a, b) ==
    IF Len(b) = 0 THEN FALSE
    ELSE IF Len(a) = 0 THEN TRUE
    ELSE IF CodeUnit(Head(a)) # CodeUnit(Head(b)) THEN CodeUnit(Head(a)) < CodeUnit(Head(b))
    ELSE StringLess(Tail(a), Tail(b))

\* a property name that is an array index: a canonical decimal numeral
IsArrayIndex(k) ==
    /\ Len(k) >= 1
    /\ \A i \in 1..Len(k) : k[i] \in Digits
    /\ (Len(k) > 1 => k[1] # "0")

\* Array.prototype.sort() of an array of distinct strings, given as their set
RECURSIVE SortStrings(_)
SortStrings(S) ==
    IF S = {} THEN << >>
    ELSE LET least == CHOOSE x \in S : \A y \in S \ {x} : StringLess(x, y)
         IN << least >> \o SortStrings(S \ {least})

\* array indices in ascending numeric order
RECURSIVE SortIndices(_)
SortIndices(S) ==
    IF S = {} THEN << >>
    ELSE LET least == CHOOSE x \in S : \A y \in S \ {x} : ParseInt(x) < ParseInt(y)
         IN << least >> \o SortIndices(S \ {least})

\* Object.keys(params): the array indices in ascending numeric order, then the
\* other names in insertion order
ObjectKeys(params) ==
    LET IsName(p) == ~IsArrayIndex(p.key)
        names == SelectSeq(params, IsName)
        indices == {params[i].key : i \in {j \in 1..Len(params) : IsArrayIndex(params[j].key)}}
    IN SortIndices(indices) \o [i \in 1..Len(names) |-> names[i].key]

\* params[key]
PropertyOf(params, key) ==
    params[CHOOSE i \in 1..Len(params) : params[i].key = key].value

\* Array.prototype.join(sep)
RECURSIVE Join(_, _)
Join(parts, sep) ==
    IF Len(parts) = 0 THEN << >>
    ELSE IF Len(parts) = 1 THEN parts[1]
    ELSE parts[1] \o sep \o Join(Tail(parts), sep)

\* a generateKey that does not sort the property names
GenerateKeyUnsorted(prefix, params) ==
    LET keys == ObjectKeys(params)
        pairs == [i \in 1..Len(keys) |-> keys[i] \o << "=" >> \o PropertyOf(params, keys[i])]
    IN prefix \o << ":" >> \o Join(pairs, << "&" >>)

\* generateKey(prefix, params), lines 16-22
generateKey(prefix, params) ==
    LET keys == ObjectKeys(params)
        sorted == SortStrings({keys[i] : i \in 1..Len(keys)})
        pairs == [i \in 1..Len(sorted) |->
                    sorted[i] \o << "=" >> \o PropertyOf(params, sorted[i])]
    IN prefix \o << ":" >> \o Join(pairs, << "&" >>)

\* the params objects of up to n properties
ParamObjects(n) ==
    UNION { { p \in [1..k -> [key : ParamNames, value : ParamValues]] :
                \A i, j \in 1..k : i # j => p[i].key # p[j].key } : k \in 0..n }

\* a request whose path and query parameters are about to be made into a key
KeyRequests ==
    { [op |-> "request", prefix |-> prefix, params |-> params] :
         prefix \in KeyPrefixes, params \in ParamObjects(MaxParams) }

\* the initial state, with a request at hand
InitKey ==
    /\ clickhouseClient = NoClient
    /\ currentConfig = NoClient
    /\ systemCapabilities = None
    /\ cachedVersion = None
    /\ cache = << >>
    /\ requestCounts = [i \in RateIds |-> 0]
    /\ windowStart = 0
    /\ now = 0
    /\ versionStale = FALSE
    /\ capsStale = FALSE
    /\ depsProbed = FALSE
    /\ codecProbed = FALSE
    /\ execution = [pc |-> "idle"]
    /\ last \in KeyRequests

\* globalCache.generateKey(url.pathname, params), line 209
GenerateKeyCall ==
    /\ last.op = "request"
    /\ last' = [op |-> "generateKey", prefix |-> last.prefix, params |-> last.params,
                key |-> generateKey(last.prefix, last.params)]
    /\ UNCHANGED << connVars, execution >>
    /\ UNCHANGED << cacheVars, execution >>

----------------------------------------------------------------------------
(* src/unnamed/part_023 (lib/cache.js): ResponseCache.checkRateLimit.  The  *)
(* Map this.requestCounts is the function requestCounts, in which 0 stands  *)
(* for a missing key (line 126 reads a missing key as 0).                   *)

\* checkRateLimit is called with a limit of 1..MaxLimit requests
MaxLimit == 2

\* and a window of 1..MaxWindow seconds
MaxWindow == 2

\* Math.ceil(ms / 1000) of a number of milliseconds that is not negative
CeilSeconds(ms) == (ms + 999) \div 1000

\* a checkRateLimit that clears the counters without restarting the window
CheckRateLimitNoRestart(counts, start, identifier, maxRequests, windowSeconds, t) ==
    LET windowMs == windowSeconds * 1000
        reset == t - start > windowMs
        cleared == IF reset THEN [i \in DOMAIN counts |-> 0] ELSE counts
        count == cleared[identifier]
    IN IF count >= maxRequests
       THEN [allowed |-> FALSE, limit |-> maxRequests, current |-> count,
             remaining |-> 0, resetIn |-> CeilSeconds(windowMs - (t - start)),
             reset |-> reset, requestCounts |-> cleared, windowStart |-> start]
       ELSE [allowed |-> TRUE, limit |-> maxRequests, current |-> count + 1,
             remaining |-> maxRequests - count - 1, resetIn |-> 0,
             reset |-> reset,
             requestCounts |-> [cleared EXCEPT ![identifier] = count + 1],
             windowStart |-> start]

\* a checkRateLimit that counts the refused calls too
CheckRateLimitCountingRefused(counts, start, identifier, maxRequests, windowSeconds, t) ==
    LET windowMs == windowSeconds * 1000
        reset == t - start > windowMs
        cleared == IF reset THEN [i \in DOMAIN counts |-> 0] ELSE counts
        newStart == IF reset THEN t ELSE start
        count == cleared[identifier]
    IN IF count >= maxRequests
       THEN [allowed |-> FALSE, limit |-> maxRequests, current |-> count,
             remaining |-> 0, resetIn |-> CeilSeconds(windowMs - (t - newStart)),
             reset |-> reset,
             requestCounts |-> [cleared EXCEPT ![identifier] = count + 1],
             windowStart |-> newStart]
       ELSE [allowed |-> TRUE, limit |-> maxRequests, current |-> count + 1,
             remaining |-> maxRequests - count - 1, resetIn |-> 0,
             reset |-> reset,
             requestCounts |-> [cleared EXCEPT ![identifier] = count + 1],
             windowStart |-> newStart]

\* checkRateLimit(identifier, maxRequests, windowSeconds), lines 115-145, at time
\* t on the counters counts and the window start: the returned object (remaining
\* is 0 where the code returns none, resetIn likewise), whether the window was
\* reset, and the new counters and window start
checkRateLimit(counts, start, identifier, maxRequests, windowSeconds, t) ==
    LET windowMs == windowSeconds * 1000
        reset == t - start > windowMs
        cleared == IF reset THEN [i \in DOMAIN counts |-> 0] ELSE counts
        newStart == IF reset THEN t ELSE start
        count == cleared[identifier]
    IN IF count >= maxRequests
       THEN [allowed |-> FALSE, limit |-> maxRequests, current |-> count,
             remaining |-> 0, resetIn |-> CeilSeconds(windowMs - (t - newStart)),
             reset |-> reset, requestCounts |-> cleared, windowStart |-> newStart]
       ELSE [allowed |-> TRUE, limit |-> maxRequests, current |-> count + 1,
             remaining |-> maxRequests - count - 1, resetIn |-> 0,
             reset |-> reset,
             requestCounts |-> [cleared EXCEPT ![identifier] = count + 1],
             windowStart |-> newStart]

CheckRateLimitCall(identifier, maxRequests, windowSeconds) ==
    LET r == checkRateLimit(requestCounts, windowStart, identifier, maxRequests,
                            windowSeconds, now)
    IN
    /\ requestCounts' = r.requestCounts
    /\ windowStart' = r.windowStart
    /\ last' = [op |-> "checkRateLimit", identifier |-> identifier,
                window |-> windowSeconds, before |-> r.requestCounts[identifier] -
                                                     (IF r.allowed THEN 1 ELSE 0),
                allowed |-> r.allowed, limit |-> r.limit, current |-> r.current,
                remaining |-> r.remaining, resetIn |-> r.resetIn, reset |-> r.reset,
                clearedOthers |-> (r.reset /\ \E i \in RateIds \ {identifier} :
                                                 requestCounts[i] > 0)]
    /\ UNCHANGED << cache, now >>
    /\ UNCHANGED << connVars, execution >>

\* getRateLimitStatus(identifier, maxRequests), lines 150-157
getRateLimitStatus(counts, identifier, maxRequests) ==
    [limit |-> maxRequests, current |-> counts[identifier],
     remaining |-> IF maxRequests - counts[identifier] > 0
                   THEN maxRequests - counts[identifier] ELSE 0]

GetRateLimitStatusCall(identifier, maxRequests) ==
    LET r == getRateLimitStatus(requestCounts, identifier, maxRequests) IN
    /\ last' = [op |-> "getRateLimitStatus", identifier |-> identifier,
                limit |-> r.limit, current |-> r.current,
                remaining |-> r.remaining]
    /\ UNCHANGED << connVars, cacheVars, execution >>

\* the limit that every call for an identifier passes when each identifier has
\* its own fixed limit
LimitOf(identifier) == IF identifier = "id1" THEN 1 ELSE MaxLimit

----------------------------------------------------------------------------
(* src/lib/errors.js: parseClickHouseError.  An error is [message, code];   *)
(* the message is the set of the phrases tested by parseClickHouseError     *)
(* that its lower-case text includes, and the code is a number, a string or *)
(* undefined.                                                               *)

Undefined == [kind |-> "undefined"]

Num(n) == [kind |-> "number", n |-> n]

Str(t) == [kind |-> "string", t |-> t]

\* ErrorCodes, lines 26-34
ACCESS_DENIED == 497

QUOTA_EXCEEDED == 201

TIMEOUT_EXCEEDED == 159

SYNTAX_ERROR == 62

UNKNOWN_TABLE == 60

\* error.code === n
CodeIs(error, n) == error.code = Num(n)

\* lowerMessage.includes(phrase)
Includes(error, phrase) == phrase \in error.message

\* the type parseClickHouseError gives an error, lines 43-147, in the order of
\* its tests
ErrorTypeOf(error) ==
    IF \/ Includes(error, "access denied")
       \/ Includes(error, "not enough privileges")
       \/ CodeIs(error, ACCESS_DENIED)
    THEN "PERMISSION_DENIED"
    ELSE IF \/ Includes(error, "quota")
            \/ Includes(error, "has been exceeded")
            \/ CodeIs(error, QUOTA_EXCEEDED)
    THEN "QUOTA_EXCEEDED"
    ELSE IF Includes(error, "timeout") \/ CodeIs(error, TIMEOUT_EXCEEDED)
    THEN "TIMEOUT"
    ELSE IF \/ Includes(error, "connection")
            \/ Includes(error, "econnrefused")
            \/ Includes(error, "network")
    THEN "CONNECTION_ERROR"
    ELSE IF Includes(error, "syntax error") \/ CodeIs(error, SYNTAX_ERROR)
    THEN "QUERY_ERROR"
    ELSE "UNKNOWN"

\* the code of the ClickHouseError made for a type
CodeOfType(type) ==
    CASE type = "PERMISSION_DENIED" -> Num(ACCESS_DENIED)
      [] type = "QUOTA_EXCEEDED" -> Num(QUOTA_EXCEEDED)
      [] type = "TIMEOUT" -> Num(TIMEOUT_EXCEEDED)
      [] type = "CONNECTION_ERROR" -> Str("CONNECTION_ERROR")
      [] type = "QUERY_ERROR" -> Num(SYNTAX_ERROR)
      [] OTHER -> Str("UNKNOWN")

\* parseClickHouseError(error), lines 39-148: a ClickHouseError with the message
\* of the error, and the code and type of its class
parseClickHouseError(error) ==
    [message |-> error.message, code |-> CodeOfType(ErrorTypeOf(error)),
     type |-> ErrorTypeOf(error)]

\* errors an upstream call can fail with
RawErrors ==
    { [message |-> {"not enough privileges"}, code |-> Undefined],
      [message |-> {}, code |-> Num(ACCESS_DENIED)],
      [message |-> {"has been exceeded"}, code |-> Undefined],
      [message |-> {"connection", "timeout"}, code |-> Undefined],
      [message |-> {"econnrefused"}, code |-> Undefined],
      [message |-> {}, code |-> Num(SYNTAX_ERROR)],
      [message |-> {}, code |-> Num(UNKNOWN_TABLE)],
      [message |-> {}, code |-> Str("497")] }

\* rows an upstream call can return
RowSets == { << >>, << "r1" >> }

\* what one upstream call does
UpstreamOutcomes ==
    { [kind |-> "rows", rows |-> r] : r \in RowSets }
      \cup { [kind |-> "error", error |-> e] : e \in RawErrors }

----------------------------------------------------------------------------
(* src/lib/clickhouse.js: executeQuery, executeQuerySafe.  An options       *)
(* object is [maxRetries, retryDelay, skipRetryOnPermission], where 0       *)
(* stands for a number that is missing or 0 (both are falsy at lines        *)
(* 241-242).                                                                *)

\* options.maxRetries is 0..MaxRetriesOption
MaxRetriesOption == 2

\* line 241
DefaultMaxRetries == 3

\* line 242
DefaultRetryDelay == 1000

RetryDelayOptions == {0, 500}

ExecuteOptions ==
    [maxRetries : 0..MaxRetriesOption, retryDelay : RetryDelayOptions,
     skipRetryOnPermission : {"undefined", "true", "false"}]

\* the options object {}
NoOptions == [maxRetries |-> 0, retryDelay |-> 0, skipRetryOnPermission |-> "undefined"]

\* lines 241-245: the call has read its options and enters the loop.  attempt is
\* the loop variable, sent the upstream calls made, waits the delays waited,
\* errors the error of each failed attempt and types its class
ExecuteBegin(options) ==
    LET maxRetries == IF options.maxRetries # 0 THEN options.maxRetries
                      ELSE DefaultMaxRetries
    IN [pc |-> IF 0 < maxRetries THEN "attempt" ELSE "returned",
        options |-> options,
        maxRetries |-> maxRetries,
        retryDelay |-> IF options.retryDelay # 0 THEN options.retryDelay
                       ELSE DefaultRetryDelay,
        skipRetryOnPermission |-> options.skipRetryOnPermission # "false",
        attempt |-> 0, sent |-> 0, waits |-> << >>, errors |-> << >>,
        types |-> << >>,
        hasRows |-> FALSE, rows |-> << >>, thrown |-> << >>]

\* an attempt that throws the permission-denied error only when it is the last
ExecuteAfterAttemptRetryingPermission(e, outcome) ==
    IF outcome.kind = "rows"
    THEN [e EXCEPT !.pc = "returned", !.sent = @ + 1, !.hasRows = TRUE,
                   !.rows = outcome.rows]
    ELSE LET parsedError == parseClickHouseError(outcome.error)
             failed == [e EXCEPT !.sent = @ + 1,
                                 !.errors = Append(@, outcome.error),
                                 !.types = Append(@, parsedError.type)]
         IN IF parsedError.type = "QUOTA_EXCEEDED"
            THEN [failed EXCEPT !.pc = "threw", !.thrown = << parsedError >>]
            ELSE IF e.attempt = e.maxRetries - 1
            THEN [failed EXCEPT !.pc = "threw", !.thrown = << parsedError >>]
            ELSE [failed EXCEPT !.pc = "wait"]

\* lines 246-270: one pass of the loop body up to the wait, for what the upstream
\* call of line 247 does
ExecuteAfterAttempt(e, outcome) ==
    IF outcome.kind = "rows"
    THEN [e EXCEPT !.pc = "returned", !.sent = @ + 1, !.hasRows = TRUE,
                   !.rows = outcome.rows]
    ELSE LET parsedError == parseClickHouseError(outcome.error)
             failed == [e EXCEPT !.sent = @ + 1,
                                 !.errors = Append(@, outcome.error),
                                 !.types = Append(@, parsedError.type)]
         IN IF e.skipRetryOnPermission /\ parsedError.type = "PERMISSION_DENIED"
            THEN [failed EXCEPT !.pc = "threw", !.thrown = << parsedError >>]
            ELSE IF parsedError.type = "QUOTA_EXCEEDED"
            THEN [failed EXCEPT !.pc = "threw", !.thrown = << parsedError >>]
            ELSE IF e.attempt = e.maxRetries - 1
            THEN [failed EXCEPT !.pc = "threw", !.thrown = << parsedError >>]
            ELSE [failed EXCEPT !.pc = "wait"]

\* a wait of retryDelay whatever the attempt
ExecuteAfterWaitConstantDelay(e) ==
    LET next == e.attempt + 1 IN
    [e EXCEPT !.waits = Append(@, e.retryDelay), !.attempt = next,
              !.pc = IF next < e.maxRetries THEN "attempt" ELSE "returned"]

\* line 273 and the loop header: the delay has passed; the loop goes on while
\* attempt < maxRetries and falls out of the function otherwise
ExecuteAfterWait(e) ==
    LET next == e.attempt + 1 IN
    [e EXCEPT !.waits = Append(@, e.retryDelay * next), !.attempt = next,
              !.pc = IF next < e.maxRetries THEN "attempt" ELSE "returned"]

RECURSIVE ExecuteRun(_, _)
\* the loop of lines 245-275 run to its end, the upstream calls doing outcomes
\* in turn
ExecuteRun(e, outcomes) ==
    IF e.pc = "attempt"
    THEN ExecuteRun(ExecuteAfterAttempt(e, Head(outcomes)), Tail(outcomes))
    ELSE IF e.pc = "wait" THEN ExecuteRun(ExecuteAfterWait(e), outcomes)
    ELSE e

\* executeQuery(client, query, options), lines 240-276, as one call
executeQuery(options, outcomes) == ExecuteRun(ExecuteBegin(options), outcomes)

\* executeQuerySafe without its try/catch: the error of executeQuery escapes
ExecuteQuerySafeNoCatch(e) ==
    IF e.pc = "returned"
    THEN [threw |-> FALSE, success |-> TRUE, data |-> Some(e.rows),
          error |-> None, permissionDenied |-> FALSE, has |-> {}]
    ELSE [threw |-> TRUE, success |-> FALSE, data |-> None, error |-> e.thrown,
          permissionDenied |-> FALSE, has |-> {}]

\* lines 283-300: what executeQuerySafe makes of a finished executeQuery.  has
\* is the set of the optional fields the object carries
ExecuteQuerySafeResult(e) ==
    IF e.pc = "returned"
    THEN [threw |-> FALSE, success |-> TRUE, data |-> Some(e.rows),
          error |-> None, permissionDenied |-> FALSE, has |-> {}]
    ELSE LET parsedError == parseClickHouseError(e.thrown[1]) IN
         [threw |-> FALSE, success |-> FALSE, data |-> None,
          error |-> Some(parsedError),
          permissionDenied |-> parsedError.type = "PERMISSION_DENIED",
          has |-> {"quotaExceeded"},
          quotaExceeded |-> parsedError.type = "QUOTA_EXCEEDED"]

\* executeQuerySafe(client, query, options), lines 282-301, as one call
executeQuerySafe(options, outcomes) ==
    ExecuteQuerySafeResult(executeQuery(options, outcomes))

ExecutionDone == execution.pc \in {"returned", "threw"}

\* no call is between its start and its end
ExecutionFree ==
    /\ execution.pc = "idle" \/ ExecutionDone
    /\ last.op = "executeQuerySafe" => last.done

\* executeQuery(client, query, options) is called
ExecuteQueryCall(options) ==
    /\ clickhouseClient # NoClient
    /\ ExecutionFree
    /\ execution' = ExecuteBegin(options)
    /\ last' = [op |-> "executeQuery"]
    /\ UNCHANGED << connVars, cacheVars >>

\* executeQuerySafe(client, query, options) is called and awaits executeQuery
ExecuteQuerySafeCall(options) ==
    /\ clickhouseClient # NoClient
    /\ ExecutionFree
    /\ execution' = ExecuteBegin(options)
    /\ last' = [op |-> "executeQuerySafe", done |-> FALSE]
    /\ UNCHANGED << connVars, cacheVars >>

\* the executeQuery awaited at line 284 has ended
ExecuteQuerySafeReturn ==
    /\ last.op = "executeQuerySafe" /\ ~last.done
    /\ ExecutionDone
    /\ last' = [op |-> "executeQuerySafe", done |-> TRUE, call |-> execution,
                result |-> ExecuteQuerySafeResult(execution)]
    /\ UNCHANGED << connVars, cacheVars, execution >>

\* the upstream call of the attempt in flight completes
ExecuteQueryAttempt(outcome) ==
    /\ execution.pc = "attempt"
    /\ execution' = ExecuteAfterAttempt(execution, outcome)
    /\ UNCHANGED << connVars, cacheVars, last >>

\* the timer of line 273 fires
ExecuteQueryWait ==
    /\ execution.pc = "wait"
    /\ execution' = ExecuteAfterWait(execution)
    /\ UNCHANGED << connVars, cacheVars, last >>

----------------------------------------------------------------------------
(* The routes that answer from globalCache: src/unnamed/part_007 (query     *)
(* analyzer), part_006 (slow queries), part_004 (table stats) and part_002  *)
(* (capabilities); detectClusterConfig of src/lib/clickhouse.js.  A cache   *)
(* key is the tuple of the prefix and the parameter values that generateKey *)
(* joins into one string.                                                   *)

CachedRoutes == {"query_analyzer", "slow_queries", "table_stats"}

\* CacheTTL, part_023 lines 166-181, in seconds: 600, 60, 60 and 30 scaled to the
\* clock of the model
CacheTTL(name) ==
    CASE name = "CLUSTER_CONFIG" -> 2
      [] name = "TABLE_STATS" -> 2
      [] name = "QUERY_ANALYZER" -> 2
      [] name = "SLOW_QUERIES" -> 1

\* the ttl each route passes to globalCache.set
RouteTtl(route) ==
    CASE route = "query_analyzer" -> CacheTTL("QUERY_ANALYZER")
      [] route = "slow_queries" -> CacheTTL("SLOW_QUERIES")
      [] route = "table_stats" -> CacheTTL("TABLE_STATS")

\* the flag of the capabilities each route requires
RouteAllowed(route, capabilities) ==
    IF route = "table_stats" THEN capabilities.hasParts
    ELSE capabilities.hasQueryLog

\* the probe of detectSystemCapabilities that sets that flag
RouteProbe(route) == IF route = "table_stats" THEN 3 ELSE 1

\* the query parameters of sample requests; << >> is a request without them
RouteParams(route) ==
    CASE route = "query_analyzer" -> { << "7" >> }
      [] route = "slow_queries" -> { << "7" >> }
      [] route = "table_stats" -> { << >>, << "db", "t1" >> }

RouteKey(route, params) == << route >> \o params

ClusterKey == << "cluster_config" >>

CapabilitiesKey == << "system_capabilities" >>

Rows == [kind |-> "rows", rows |-> << "r1" >>]

Denied == [kind |-> "error",
           error |-> [message |-> {"not enough privileges"}, code |-> Undefined]]

Refused == [kind |-> "error",
            error |-> [message |-> {"econnrefused"}, code |-> Undefined]]

\* what an upstream call of a route does
RouteOutcomes ==
    { Rows, Denied, Refused,
      [kind |-> "error",
       error |-> [message |-> {"has been exceeded"}, code |-> Undefined]] }

\* what the attempts of one executeQuerySafe call of a route do
RouteRuns == { << o, o, o >> : o \in RouteOutcomes } \cup { << Refused, Refused, Rows >> }

\* the configuration made of the rows of system.clusters, lines 152-179
ClusterConfigOf(rows) == IF Len(rows) > 0 THEN "clustered" ELSE "standalone"

\* detectClusterConfig without its try/catch: the error of the query escapes
DetectClusterConfigNoCatch(m, outcome, t) ==
    LET cached == get(m, ClusterKey, t) IN
    IF cached.found = "hit"
    THEN [threw |-> FALSE, config |-> Val(cached.value), cache |-> cached.cache,
          sent |-> 0]
    ELSE IF outcome.kind = "rows"
    THEN [threw |-> FALSE, config |-> ClusterConfigOf(outcome.rows),
          cache |-> set(cached.cache, ClusterKey, ClusterConfigOf(outcome.rows),
                        CacheTTL("CLUSTER_CONFIG"), t),
          sent |-> 1]
    ELSE [threw |-> TRUE, config |-> "none", cache |-> cached.cache, sent |-> 1]

\* detectClusterConfig(client), lines 125-219, at time t on cache m: the
\* configuration, the new cache and the upstream calls made
detectClusterConfig(m, outcome, t) ==
    LET cached == get(m, ClusterKey, t) IN
    IF cached.found = "hit"
    THEN [threw |-> FALSE, config |-> Val(cached.value), cache |-> cached.cache,
          sent |-> 0]
    ELSE IF outcome.kind = "rows"
    THEN [threw |-> FALSE, config |-> ClusterConfigOf(outcome.rows),
          cache |-> set(cached.cache, ClusterKey, ClusterConfigOf(outcome.rows),
                        CacheTTL("CLUSTER_CONFIG"), t),
          sent |-> 1]
    ELSE IF parseClickHouseError(outcome.error).type = "PERMISSION_DENIED"
    THEN [threw |-> FALSE, config |-> "single",
          cache |-> set(cached.cache, ClusterKey, "single",
                        CacheTTL("CLUSTER_CONFIG"), t),
          sent |-> 1]
    ELSE [threw |-> FALSE, config |-> "defaults", cache |-> cached.cache,
          sent |-> 1]

\* detectSystemCapabilities, lines 312-350, for what its four probes do
DetectFrom(outcomes, t) ==
    DetectedCapabilities(
      [i \in 1..4 |-> executeQuerySafe([NoOptions EXCEPT !.maxRetries = 1],
                                       << outcomes[i] >>).success], t)

\* the probes of a detection in which the probe of the route does capOut and the
\* others do otherOut
ProbesFor(route, capOut, otherOut) ==
    [i \in 1..4 |-> IF i = RouteProbe(route) THEN capOut ELSE otherOut]

\* a handler that never looks its key up in the cache
CachedRouteAnswerIgnoringCache(route, key, capabilities, m, t, clusterOut, run) ==
    IF ~RouteAllowed(route, capabilities)
    THEN [status |-> 403, cached |-> FALSE, sent |-> 0, cause |-> "capability",
          cache |-> m]
    ELSE LET cluster == IF route = "table_stats"
                        THEN [cache |-> m, sent |-> 0]
                        ELSE detectClusterConfig(m, clusterOut, t)
             e == executeQuery(NoOptions, run)
             result == ExecuteQuerySafeResult(e)
         IN IF ~result.success
            THEN [status |-> IF result.permissionDenied THEN 403
                             ELSE IF result.quotaExceeded THEN 429 ELSE 500,
                  cached |-> FALSE, sent |-> cluster.sent + e.sent,
                  cause |-> result.error[1].type, cache |-> cluster.cache]
            ELSE [status |-> 200, cached |-> FALSE, sent |-> cluster.sent + e.sent,
                  cause |-> "none",
                  cache |-> set(cluster.cache, key, result.data[1],
                                RouteTtl(route), t)]

\* part_007 lines 25-106 (part_006 lines 106-174, part_004 lines 26-97): the
\* handler from the capability check on, at time t on cache m
CachedRouteAnswer(route, key, capabilities, m, t, clusterOut, run) ==
    IF ~RouteAllowed(route, capabilities)
    THEN [status |-> 403, cached |-> FALSE, sent |-> 0, cause |-> "capability",
          cache |-> m]
    ELSE LET cached == get(m, key, t) IN
         IF cached.found = "hit"
         THEN [status |-> 200, cached |-> TRUE, sent |-> 0, cause |-> "none",
               cache |-> cached.cache]
         ELSE LET cluster == IF route = "table_stats"
                             THEN [cache |-> cached.cache, sent |-> 0]
                             ELSE detectClusterConfig(cached.cache, clusterOut, t)
                  e == executeQuery(NoOptions, run)
                  result == ExecuteQuerySafeResult(e)
              IN IF ~result.success
                 THEN [status |-> IF result.permissionDenied THEN 403
                                  ELSE IF result.quotaExceeded THEN 429 ELSE 500,
                       cached |-> FALSE, sent |-> cluster.sent + e.sent,
                       cause |-> result.error[1].type, cache |-> cluster.cache]
                 ELSE [status |-> 200, cached |-> FALSE,
                       sent |-> cluster.sent + e.sent, cause |-> "none",
                       cache |-> set(cluster.cache, key, result.data[1],
                                     RouteTtl(route), t)]

\* the response of a request that ended before the capability check
CachedPlain(route, key, status) ==
    [op |-> "cachedRoute", route |-> route, key |-> key, status |-> status,
     cached |-> FALSE, sent |-> 0, cause |-> "none", detected |-> FALSE,
     expiresAt |-> -1]

\* an entry that a request may still hit within the bound on hits
HitsLeft(key) == MapHas(cache, key) => MapGet(cache, key).hits < MaxHits

\* the expiry of the entry of key in m, -1 if there is none
ExpiryOf(m, key) == IF MapHas(m, key) THEN MapGet(m, key).expiresAt ELSE -1

\* the module variables of clickhouse.js after getClientFromRequest returned g
\* and getSystemCapabilities returned capabilities, detected or not
ClientAndCapabilities(g, capabilities, detect) ==
    /\ clickhouseClient' = g.client
    /\ currentConfig' = IF g.inited THEN g.client ELSE currentConfig
    /\ systemCapabilities' = Some(capabilities)
    /\ capsStale' = IF detect THEN FALSE ELSE capsStale
    /\ versionStale' = IF g.inited THEN ~IsNull(cachedVersion) ELSE versionStale
    /\ depsProbed' = (~g.inited /\ depsProbed)
    /\ codecProbed' = (~g.inited /\ codecProbed)
    /\ UNCHANGED cachedVersion

\* GET of the query-analyzer, slow-queries or table-stats route
CachedRouteRequest(route, cookie, params) ==
    LET g == getClientFromRequest(cookie)
        key == RouteKey(route, params)
    IN
    /\ HitsLeft(key) /\ HitsLeft(ClusterKey)
    /\ IF route = "table_stats" /\ params = << >>
       THEN \* part_004 lines 16-21
            /\ last' = CachedPlain(route, key, 400)
            /\ UNCHANGED << connVars, cache >>
       ELSE IF g.threw
       THEN \* getClientFromRequest throws, the catch answers
            /\ last' = CachedPlain(route, key, 500)
            /\ UNCHANGED << connVars, cache >>
       ELSE LET known == IF g.inited THEN None ELSE systemCapabilities
                detect == IsNull(known)
            IN \E capOut \in IF detect THEN RouteOutcomes ELSE {Rows},
                  otherOut \in {Rows} :
               LET capabilities ==
                     IF detect THEN DetectFrom(ProbesFor(route, capOut, otherOut), now)
                     ELSE Val(known)
                   queries == /\ RouteAllowed(route, capabilities)
                              /\ get(cache, key, now).found # "hit"
                   cluster == /\ queries /\ route # "table_stats"
                              /\ get(cache, ClusterKey, now).found # "hit"
               IN \E clusterOut \in IF cluster THEN {Rows, Refused} ELSE {Rows},
                     run \in IF queries THEN RouteRuns ELSE {<< Rows, Rows, Rows >>} :
                  LET a == CachedRouteAnswer(route, key, capabilities, cache, now,
                                             clusterOut, run)
                  IN /\ ClientAndCapabilities(g, capabilities, detect)
                     /\ cache' = a.cache
                     /\ last' = [op |-> "cachedRoute", route |-> route, key |-> key,
                                 status |-> a.status, cached |-> a.cached,
                                 sent |-> a.sent + (IF detect THEN 4 ELSE 0),
                                 cause |-> IF a.cause # "capability" THEN a.cause
                                           ELSE IF detect
                                           THEN parseClickHouseError(capOut.error).type
                                           ELSE "earlier",
                                 detected |-> detect,
                                 expiresAt |-> IF a.status # 200 THEN -1
                                               ELSE IF a.cached
                                               THEN ExpiryOf(a.cache, key)
                                               ELSE now + RouteTtl(route) * 1000]
    /\ UNCHANGED << requestCounts, windowStart, now, execution >>

\* GET of the capabilities route, part_002 lines 6-30
CapabilitiesRequest(cookie) ==
    LET g == getClientFromRequest(cookie)
        key == CapabilitiesKey
        cached == get(cache, key, now)
    IN
    /\ HitsLeft(key)
    /\ IF cached.found = "hit"
       THEN /\ cache' = cached.cache
            /\ last' = [CachedPlain("capabilities", key, 200) EXCEPT
                          !.cached = TRUE, !.expiresAt = ExpiryOf(cached.cache, key)]
            /\ UNCHANGED connVars
       ELSE IF g.threw
       THEN /\ cache' = cached.cache
            /\ last' = CachedPlain("capabilities", key, 500)
            /\ UNCHANGED connVars
       ELSE LET known == IF g.inited THEN None ELSE systemCapabilities
                detect == IsNull(known)
            IN \E probes \in IF detect THEN { [i \in 1..4 |-> o] : o \in {Rows, Denied} }
                             ELSE { [i \in 1..4 |-> Rows] } :
               LET capabilities == IF detect THEN DetectFrom(probes, now)
                                   ELSE Val(known)
                   stored == set(cached.cache, key, capabilities,
                                 CacheTTL("CLUSTER_CONFIG"), now)
               IN /\ ClientAndCapabilities(g, capabilities, detect)
                  /\ cache' = stored
                  /\ last' = [CachedPlain("capabilities", key, 200) EXCEPT
                                !.sent = IF detect THEN 4 ELSE 0,
                                !.detected = detect,
                                !.expiresAt = now + CacheTTL("CLUSTER_CONFIG") * 1000]
    /\ UNCHANGED << requestCounts, windowStart, now, execution >>

\* detectClusterConfig(client) is called on the current client
DetectClusterConfigCall(outcome) ==
    /\ clickhouseClient # NoClient
    /\ HitsLeft(ClusterKey)
    /\ LET r == detectClusterConfig(cache, outcome, now) IN
       /\ cache' = r.cache
       /\ last' = [op |-> "detectClusterConfig", threw |-> r.threw,
                   value |-> r.config, sent |-> r.sent,
                   outcome |-> IF r.sent > 0 THEN outcome ELSE Rows]
    /\ UNCHANGED << requestCounts, windowStart, now >>
    /\ UNCHANGED << connVars, execution >>

----------------------------------------------------------------------------
(* src/unnamed/part_023 (lib/cache.js): withCache, lines 195-255.  The      *)
(* wrapped handler is known by what one call of it does: "ok" returns a     *)
(* response without an error field, "error" one with it, "throws" throws.   *)

HandlerOutcomes == {"ok", "error", "throws"}

\* a wrapper that stores whatever the handler returned
WithCacheStoringErrors(m, counts, start, path, maxRequests, window, ttl, t, handled) ==
    LET key == << path >>
        rate == checkRateLimit(counts, start, path, maxRequests, window, t)
    IN IF ~rate.allowed
       THEN [kind |-> "RATE_LIMIT_EXCEEDED", cached |-> FALSE, calls |-> 0,
             threw |-> FALSE, cache |-> m, rate |-> rate]
       ELSE LET cached == get(m, key, t) IN
            IF cached.found = "hit"
            THEN [kind |-> "cached", cached |-> TRUE, calls |-> 0, threw |-> FALSE,
                  cache |-> cached.cache, rate |-> rate]
            ELSE [kind |-> handled, cached |-> FALSE, calls |-> 1,
                  threw |-> handled = "throws",
                  cache |-> IF handled # "throws"
                            THEN set(cached.cache, key, handled, ttl, t)
                            ELSE cached.cache,
                  rate |-> rate]

\* the wrapper of lines 205-254 on a request for path at time t: what it returns,
\* how often it called the handler, the new cache and the rate-limit check
withCache(m, counts, start, path, maxRequests, window, ttl, t, handled) ==
    LET key == << path >>
        rate == checkRateLimit(counts, start, path, maxRequests, window, t)
    IN IF ~rate.allowed
       THEN [kind |-> "RATE_LIMIT_EXCEEDED", cached |-> FALSE, calls |-> 0,
             threw |-> FALSE, cache |-> m, rate |-> rate]
       ELSE LET cached == get(m, key, t) IN
            IF cached.found = "hit"
            THEN [kind |-> "cached", cached |-> TRUE, calls |-> 0, threw |-> FALSE,
                  cache |-> cached.cache, rate |-> rate]
            ELSE [kind |-> handled, cached |-> FALSE, calls |-> 1,
                  threw |-> handled = "throws",
                  cache |-> IF handled = "ok"
                            THEN set(cached.cache, key, handled, ttl, t)
                            ELSE cached.cache,
                  rate |-> rate]

\* a request to a handler wrapped with options {ttl, rateLimit: {maxRequests,
\* window}}
WithCacheRequest(path, maxRequests, window, ttl) ==
    /\ HitsLeft(<< path >>)
    /\ LET known == /\ checkRateLimit(requestCounts, windowStart, path, maxRequests,
                                      window, now).allowed
                    /\ get(cache, << path >>, now).found # "hit"
       IN \E handled \in IF known THEN HandlerOutcomes ELSE {"ok"} :
          LET r == withCache(cache, requestCounts, windowStart, path, maxRequests,
                             window, ttl, now, handled)
          IN /\ cache' = r.cache
             /\ requestCounts' = r.rate.requestCounts
             /\ windowStart' = r.rate.windowStart
             /\ last' = [op |-> "withCache", key |-> << path >>,
                         maxRequests |-> maxRequests, window |-> window, ttl |-> ttl,
                         kind |-> r.kind, cached |-> r.cached, sent |-> r.calls,
                         threw |-> r.threw,
                         expiresAt |-> IF r.kind = "cached"
                                       THEN ExpiryOf(r.cache, << path >>)
                                       ELSE IF r.kind = "ok" THEN now + ttl * 1000
                                       ELSE -1]
    /\ UNCHANGED << connVars, now, execution >>

\* time passes between two requests
Elapse ==
    /\ now < MaxNow
    /\ now' = now + TickMs
    /\ UNCHANGED << cache, requestCounts, windowStart, connVars, execution, last >>

----------------------------------------------------------------------------
(* materialized-views/route.js lines 74-84 on CREATE statements put together  *)
(* from a select list, the keyword, white space, a table reference and a tail *)

\* CREATE MATERIALIZED VIEW mv AS SELECT
CreateHead ==
    << "C", "R", "E", "A", "T", "E", " ", "M", "A", "T", "E", "R", "I", "A", "L", "I", "Z",
       "E", "D", " ", "V", "I", "E", "W", " ", "m", "v", " ", "A", "S", " ", "S", "E", "L",
       "E", "C", "T", " " >>

\* select lists: a / a, b / a AS valid_from
SelectLists ==
    { << "a", " " >>,
      << "a", ",", " ", "b", "\n" >>,
      << "a", " ", "A", "S", " ", "v", "a", "l", "i", "d", "_", "f", "r", "o", "m", " " >> }

FromKeywords == { << "F", "R", "O", "M" >>, << "f", "r", "o", "m" >>, << "F", "r", "o", "m" >> }

Spaces == { << " " >>, << "\n" >>, << " ", " " >> }

\* a table reference as written, with the database and table it names
TableRefs ==
    { [text |-> RAW \o << "." >> \o EVENTS, db |-> Some(RAW), tbl |-> EVENTS],
      [text |-> << Backtick >> \o RAW \o << Backtick, ".", Backtick >> \o EVENTS
                  \o << Backtick >>,
       db |-> Some(RAW), tbl |-> EVENTS],
      [text |-> << Backtick >> \o RAW \o << Backtick, "." >> \o EVENTS,
       db |-> Some(RAW), tbl |-> EVENTS],
      [text |-> EVENTS, db |-> None, tbl |-> EVENTS],
      [text |-> << Backtick >> \o EVENTS \o << Backtick >>, db |-> None, tbl |-> EVENTS] }

Tails == { << >>, << " ", "W", "H", "E", "R", "E", " ", "a", " ", ">", " ", "0" >> }

\* a view without metadata, in database DB, whose tier 1 gave nothing
FromRequests ==
    { [op |-> "view", database |-> DB,
       create_table_query |-> CreateHead \o s \o k \o w \o r.text \o t,
       select |-> s, db |-> r.db, tbl |-> r.tbl] :
         s \in SelectLists, k \in FromKeywords, w \in Spaces, r \in TableRefs, t \in Tails }

InitFrom ==
    /\ clickhouseClient = NoClient
    /\ currentConfig = NoClient
    /\ systemCapabilities = None
    /\ cachedVersion = None
    /\ cache = << >>
    /\ requestCounts = [i \in RateIds |-> 0]
    /\ windowStart = 0
    /\ now = 0
    /\ versionStale = FALSE
    /\ capsStale = FALSE
    /\ depsProbed = FALSE
    /\ codecProbed = FALSE
    /\ execution = [pc |-> "idle"]
    /\ last \in FromRequests

\* lines 75-84 for the view at hand, sourceTables being empty
ParseFromCall ==
    /\ last.op = "view"
    /\ last' = [op |-> "parseFrom", database |-> last.database,
                select |-> last.select, db |-> last.db, tbl |-> last.tbl,
                sources |-> IF Len(last.create_table_query) > 0
                            THEN MatchedTables(FromMatch(last.create_table_query),
                                               last.database)
                            ELSE << >>]
    /\ UNCHANGED << connVars, cacheVars, execution >>

----------------------------------------------------------------------------
(* src/lib/validation.js: escapeIdentifier on any short string *)

\* identifiers have up to MaxIdLen characters
MaxIdLen == 3

\* characters of identifiers: four of [a-zA-Z0-9_] and four others
IdAlphabet == {"a", "Z", "9", "_", "-", "'", ";", " "}

Identifiers == UNION { [1..n -> IdAlphabet] : n \in 0..MaxIdLen }

InitEscape ==
    /\ clickhouseClient = NoClient
    /\ currentConfig = NoClient
    /\ systemCapabilities = None
    /\ cachedVersion = None
    /\ cache = << >>
    /\ requestCounts = [i \in RateIds |-> 0]
    /\ windowStart = 0
    /\ now = 0
    /\ versionStale = FALSE
    /\ capsStale = FALSE
    /\ depsProbed = FALSE
    /\ codecProbed = FALSE
    /\ execution = [pc |-> "idle"]
    /\ last \in { [op |-> "identifier", input |-> s] : s \in Identifiers }

\* escapeIdentifier(identifier), and escapeIdentifier of its result
EscapeIdentifierCall ==
    /\ last.op = "identifier"
    /\ last' = [op |-> "escapeIdentifier", input |-> last.input,
                output |-> escapeIdentifier(last.input),
                again |-> escapeIdentifier(escapeIdentifier(last.input))]
    /\ UNCHANGED << connVars, cacheVars, execution >>

----------------------------------------------------------------------------
(* src/lib/clickhouse.js: getSystemCapabilities calls that overlap each other *)
(* and initClickHouseClient. Each await of a probe is a point where another   *)
(* request's code may run.                                                    *)

\* the requests whose getSystemCapabilities calls may overlap
Callers == {"A", "B"}

IdleCall == [pc |-> "idle"]

\* the calls in flight, per caller
Calls(e) == IF e.pc = "idle" THEN [c \in Callers |-> IdleCall] ELSE e.calls

WithCall(e, c, call) == [pc |-> "detect", calls |-> [Calls(e) EXCEPT ![c] = call]]

\* getSystemCapabilities(client), lines 360-365, up to the first await of
\* detectSystemCapabilities (line 321): with a stored profile the call returns
\* it; without one it builds a fresh capabilities object and sends the first
\* probe on the client it was given
GetSystemCapabilitiesBegin(c) ==
    /\ clickhouseClient # NoClient
    /\ Calls(execution)[c].pc \in {"idle", "done"}
    /\ IF ~IsNull(systemCapabilities)
       THEN /\ execution' = WithCall(execution, c,
                               [pc |-> "done", client |-> clickhouseClient,
                                flags |-> << >>, checkedAt |-> now,
                                superseded |-> FALSE,
                                value |-> Val(systemCapabilities)])
            /\ last' = [op |-> "getSystemCapabilities", client |-> clickhouseClient,
                        value |-> Val(systemCapabilities), sent |-> 0,
                        stale |-> capsStale]
       ELSE /\ execution' = WithCall(execution, c,
                               [pc |-> "probing", client |-> clickhouseClient,
                                flags |-> << >>, checkedAt |-> now,
                                superseded |-> FALSE])
            /\ last' = [op |-> "detectSystemCapabilities", caller |-> c]
    /\ UNCHANGED << connVars, cacheVars >>

\* one executeQuerySafe probe of lines 321-348 returns; after the fourth the call
\* stores its capabilities object (line 353) and getSystemCapabilities returns
\* systemCapabilities (line 364)
DetectProbeReturn(c, success) ==
    LET call == Calls(execution)[c]
        flags == Append(call.flags, success)
    IN
    /\ call.pc = "probing"
    /\ IF Len(flags) < 4
       THEN /\ execution' = WithCall(execution, c, [call EXCEPT !.flags = flags])
            /\ last' = [op |-> "probe", caller |-> c]
            /\ UNCHANGED connVars
       ELSE LET capabilities == DetectedCapabilities(flags, call.checkedAt) IN
            /\ systemCapabilities' = Some(capabilities)
            /\ capsStale' = call.superseded
            /\ execution' = WithCall(execution, c,
                               [pc |-> "done", client |-> call.client,
                                flags |-> flags, checkedAt |-> call.checkedAt,
                                superseded |-> call.superseded,
                                value |-> capabilities])
            /\ last' = [op |-> "getSystemCapabilities", client |-> call.client,
                        value |-> capabilities, sent |-> 4,
                        stale |-> call.superseded]
            /\ UNCHANGED << clickhouseClient, currentConfig, cachedVersion,
                            versionStale, depsProbed, codecProbed >>
    /\ UNCHANGED cacheVars

\* initClickHouseClient(config), lines 57-74, while calls are in flight: they go
\* on with the client they were given; each is marked as begun on a connection
\* that is no longer the current one
InitClickHouseClientDuringCalls(config) ==
    /\ InitClientEffects(config)
    /\ UNCHANGED cachedVersion
    /\ versionStale' = ~IsNull(cachedVersion')
    /\ depsProbed' = FALSE
    /\ codecProbed' = FALSE
    /\ execution' = [pc |-> "detect",
                     calls |-> [c \in Callers |->
                        IF Calls(execution)[c].pc = "idle" THEN IdleCall
                        ELSE [Calls(execution)[c] EXCEPT !.superseded = TRUE]]]
    /\ last' = [op |-> "initClickHouseClient", client |-> config]
    /\ UNCHANGED cacheVars

----------------------------------------------------------------------------
(* src/app/api/clickhouse/connect/route.js and disconnect/route.js, with the *)
(* cookie of a request as its input.  Server 1 is a cluster, the other       *)
(* servers are standalone.                                                   *)

\* the rows of system.clusters on the server of config
ServerClusters(config) == IF config = 1 THEN << "r1" >> ELSE << >>

\* what the system.clusters query of detectClusterConfig does on that server
ServerClusterOutcomes(config) ==
    { [kind |-> "rows", rows |-> ServerClusters(config)], Denied, Refused }

\* the outcomes to draw for a detectClusterConfig call: one when the cache
\* answers and no query is sent
ClusterOutcomesNow(config) ==
    IF get(cache, ClusterKey, now).found = "hit"
    THEN { [kind |-> "rows", rows |-> ServerClusters(config)] }
    ELSE ServerClusterOutcomes(config)

\* POST connect, lines 5-47: testConnection, initClickHouseClient,
\* detectClusterConfig, then the cookie is set and the cluster configuration is
\* part of the answer
ConnectRequest(config, testOk, outcome) ==
    /\ HitsLeft(ClusterKey)
    /\ IF ~testOk
       THEN /\ last' = [op |-> "connect", status |-> 400, client |-> clickhouseClient,
                        clusterConfig |-> "none", sent |-> 0]
            /\ UNCHANGED << connVars, cache >>
       ELSE LET r == detectClusterConfig(cache, outcome, now) IN
            /\ InitClientEffects(config)
            /\ UNCHANGED cachedVersion
            /\ versionStale' = ~IsNull(cachedVersion')
            /\ depsProbed' = FALSE
            /\ codecProbed' = FALSE
            /\ cache' = r.cache
            /\ last' = [op |-> "connect", status |-> 200, client |-> config,
                        clusterConfig |-> r.config, sent |-> r.sent]
    /\ UNCHANGED << requestCounts, windowStart, now, execution >>

\* POST disconnect, lines 7-25: the cookie is deleted in the answer; no state of
\* the server changes
DisconnectRequest ==
    /\ last' = [op |-> "disconnect", status |-> 200, client |-> clickhouseClient]
    /\ UNCHANGED << connVars, cacheVars, execution >>

\* getClientFromRequest() in a request that carries cookie
GetClientFromRequestCall(cookie) ==
    LET g == getClientFromRequest(cookie) IN
    /\ GetClientEffects(g)
    /\ UNCHANGED cachedVersion
    /\ versionStale' = IF g.inited THEN ~IsNull(cachedVersion) ELSE versionStale
    /\ depsProbed' = (~g.inited /\ depsProbed)
    /\ codecProbed' = (~g.inited /\ codecProbed)
    /\ last' = [op |-> "getClientFromRequest", cookie |-> cookie,
                threw |-> g.threw, client |-> g.client]
    /\ UNCHANGED << cacheVars, execution >>

----------------------------------------------------------------------------
(* The SQL text that the handlers send upstream.  A query is a sequence of   *)
(* segments: text of the source, a placeholder of a template, or a value put *)
(* in by the handler.                                                        *)

Text(t) == [kind |-> "text", text |-> << t >>]

Placeholder(name) == [kind |-> "placeholder", text |-> << name >>]

Value(v) == [kind |-> "value", text |-> v]

\* String.prototype.replace with a string pattern: the first occurrence only
Replace(sql, name, v) ==
    LET hits == { i \in 1..Len(sql) : sql[i] = Placeholder(name) } IN
    IF hits = {} THEN sql
    ELSE LET first == CHOOSE i \in hits : \A j \in hits : i <= j
         IN [sql EXCEPT ![first] = Value(v)]

\* part_022 (lib/queries.js) lines 22-42
GET_TABLES ==
    << Text("SELECT ... FROM system.tables WHERE database = '"),
       Placeholder("{database}"),
       Text("' AND engine NOT IN ('View', 'Dictionary') ORDER BY name") >>

\* part_022 lines 44-61
GET_TABLE_COLUMNS ==
    << Text("SELECT ... FROM system.columns WHERE database = '"),
       Placeholder("{database}"),
       Text("' AND table = '"),
       Placeholder("{table}"),
       Text("' ORDER BY position") >>

\* part_022 lines 63-82
GET_TABLE_PARTS ==
    << Text("SELECT ... FROM system.parts WHERE database = '"),
       Placeholder("{database}"),
       Text("' AND table = '"),
       Placeholder("{table}"),
       Text("' AND active = 1 ORDER BY modification_time DESC LIMIT 1000") >>

\* tables/route.js: the queries of lines 39-48 (a table with details) or of
\* lines 61-64, none without a database (lines 12-17)
TablesRouteQueries(database, table, details) ==
    IF database = << >> THEN << >>
    ELSE IF table # << >> /\ details
    THEN << Replace(Replace(GET_TABLE_COLUMNS, "{database}", database),
                    "{table}", table),
            Replace(Replace(GET_TABLE_PARTS, "{database}", database),
                    "{table}", table) >>
    ELSE << Replace(GET_TABLES, "{database}", database) >>

\* lineage/route.js: tablesQuery of lines 13-22 and allDepsQuery of lines 38-46;
\* the database filter is left out when no database was given
LineageRouteQueries(database) ==
    IF database = << >>
    THEN << << Text("SELECT ... FROM system.tables WHERE ... ORDER BY database, name") >>,
            << Text("SELECT ... FROM system.dependencies") >> >>
    ELSE << << Text("SELECT ... FROM system.tables WHERE ... AND database = '"),
               Value(database),
               Text("' ORDER BY database, name") >>,
            << Text("SELECT ... FROM system.dependencies WHERE database = '"),
               Value(database),
               Text("' OR dependent_database = '"),
               Value(database),
               Text("'") >> >>

\* part_004 (table-stats route): statsQuery of lines 50-65, none without both
\* parameters (lines 16-21)
TableStatsQueries(database, table) ==
    IF database = << >> \/ table = << >> THEN << >>
    ELSE << << Text("SELECT ... FROM system.parts WHERE database = '"),
               Value(database),
               Text("' AND table = '"),
               Value(table),
               Text("' AND active = 1") >> >>

\* clickhouse.js lines 429-438: the query of checkTableExists, none when the
\* validation fails
CheckTableExistsQueries(database, table) ==
    LET validated == validateTableIdentifier(database, table) IN
    IF ~validated.success THEN << >>
    ELSE << << Text("SELECT 1 FROM system.tables WHERE database = '"),
               Value(validated.database),
               Text("' AND name = '"),
               Value(validated.table),
               Text("' LIMIT 1") >> >>

SqlRoutes == {"tables", "lineage", "table_stats", "checkTableExists"}

\* the queries of a request, on the path of the handler that sends them all
RouteQueries(route, database, table, details) ==
    CASE route = "tables" -> TablesRouteQueries(database, table, details)
      [] route = "lineage" -> LineageRouteQueries(database)
      [] route = "table_stats" -> TableStatsQueries(database, table)
      [] route = "checkTableExists" -> CheckTableExistsQueries(database, table)

\* a request with the query-string parameters database and table (the empty
\* string when absent) whose handler reaches its queries
SqlRequest(route, database, table, details) ==
    /\ clickhouseClient # NoClient
    /\ last' = [op |-> "sql", route |-> route, database |-> database,
                table |-> table,
                queries |-> RouteQueries(route, database, table, details)]
    /\ UNCHANGED << connVars, cacheVars, execution >>

----------------------------------------------------------------------------
(* Specifications *)

InitCalls(configs) == \E c \in configs : initClickHouseClient(c)

\* the tables route on any of the sample servers
TablesNext ==
    \/ InitCalls(Configs)
    \/ \E o \in VersionOutcomes : GetClickHouseVersionCall(o)
    \/ TablesRequests

SpecTables == Init /\ [][TablesNext]_vars

\* the capability and version probes across reconnects
ConnNext ==
    \/ InitCalls(Configs)
    \/ \E o \in VersionOutcomes : GetClickHouseVersionCall(o)
    \/ \E p \in CapabilityProbes : GetSystemCapabilitiesCall(p)

SpecConn == Init /\ [][ConnNext]_vars

\* the existence probes on any identifiers; they do not read which server it is
ProbesNext ==
    \/ InitCalls({1})
    \/ \E d \in SampleIdentifiers \ {COLUMNS, CODEC_EXPRESSION},
          t \in SampleIdentifiers \ {COLUMNS, CODEC_EXPRESSION}, o \in ProbeOutcomes :
          CheckTableExistsCall(d, t, o)
    \/ \E d \in {SYSTEM, << >>}, t \in {COLUMNS, << "a", ";", "b" >>},
          c \in SampleIdentifiers \ {SYSTEM, DEPENDENCIES}, o \in ProbeOutcomes :
          CheckColumnExistsCall(d, t, c, o)

SpecProbes == Init /\ [][ProbesNext]_vars

\* the dependency routes
DepsNext ==
    \/ InitCalls({1, 4})
    \/ LineageRequests
    \/ MVRequests(SampleViewLists)

SpecDeps == Init /\ [][DepsNext]_vars

\* the three routes that probe, on two of the servers
RoutesNext ==
    \/ InitCalls({1, 4})
    \/ TablesRequests
    \/ LineageRequests
    \/ MVRequests({<< >>, << 1, 2 >>, << 5, 6 >>})

Spec == Init /\ [][RoutesNext]_vars

\* the response cache under a clock
CacheNext ==
    \/ \E k \in CacheKeys, d \in CacheData, ttl \in 0..MaxTtl : CacheSet(k, d, ttl)
    \/ \E k \in CacheKeys : CacheGet(k)
    \/ Tick

SpecCache == Init /\ [][CacheNext]_vars

\* cache keys of requests
KeyNext == GenerateKeyCall

SpecKey == InitKey /\ [][KeyNext]_vars

\* the rate limiter under a clock
RateNext ==
    \/ \E i \in RateIds, n \in 1..MaxLimit, w \in 1..MaxWindow : CheckRateLimitCall(i, n, w)
    \/ Tick

SpecRate == Init /\ [][RateNext]_vars

\* calls of executeQuery on a connected client
ExecNext ==
    \/ InitCalls({1})
    \/ \E o \in ExecuteOptions : ExecuteQueryCall(o)
    \/ \E o \in ExecuteOptions : ExecuteQuerySafeCall(o)
    \/ ExecuteQuerySafeReturn
    \/ \E u \in UpstreamOutcomes : ExecuteQueryAttempt(u)
    \/ ExecuteQueryWait

SpecExec == Init /\ [][ExecNext]_vars

\* the same, where an upstream call that is pending completes and a timer that
\* is set fires
SpecExecFair ==
    /\ SpecExec
    /\ WF_vars(\E u \in UpstreamOutcomes : ExecuteQueryAttempt(u))
    /\ WF_vars(ExecuteQueryWait)
    /\ WF_vars(ExecuteQuerySafeReturn)

\* requests to the routes of the set routes
CachedRouteRequests(routes) ==
    \E route \in routes, cookie \in Cookies \cap {1, NoClient},
       params \in UNION { RouteParams(r) : r \in routes } :
       params \in RouteParams(route) /\ CachedRouteRequest(route, cookie, params)

\* the query-analyzer route and a wrapped handler, under a clock
CachedNext ==
    \/ InitCalls({1})
    \/ CachedRouteRequests({"query_analyzer"})
    \/ WithCacheRequest("id1", MaxLimit, MaxWindow, MaxTtl)
    \/ Elapse

SpecCached == Init /\ [][CachedNext]_vars

\* the four routes that answer from the cache, at one instant
StatusNext ==
    \/ InitCalls({1})
    \/ CachedRouteRequests(CachedRoutes)
    \/ \E cookie \in Cookies \cap {1, NoClient} : CapabilitiesRequest(cookie)

SpecStatus == Init /\ [][StatusNext]_vars

\* detectClusterConfig under a clock
ClusterNext ==
    \/ InitCalls({1})
    \/ \E o \in UpstreamOutcomes :
          /\ get(cache, ClusterKey, now).found = "hit" => o = Rows
          /\ DetectClusterConfigCall(o)
    \/ Tick

SpecCluster == Init /\ [][ClusterNext]_vars

\* the FROM tier of the materialized-views route on the statements at hand
FromNext == ParseFromCall

SpecFrom == InitFrom /\ [][FromNext]_vars

\* escapeIdentifier on the identifiers at hand
EscapeNext == EscapeIdentifierCall

SpecEscape == InitEscape /\ [][EscapeNext]_vars

\* overlapping getSystemCapabilities calls and reconnects
DetectNext ==
    \/ \E config \in {1, 2} : InitClickHouseClientDuringCalls(config)
    \/ \E c \in Callers : GetSystemCapabilitiesBegin(c)
    \/ \E c \in Callers, success \in BOOLEAN : DetectProbeReturn(c, success)

SpecDetect == Init /\ [][DetectNext]_vars

\* connecting, disconnecting and requests with any cookie, on two servers
SessionNext ==
    \/ \E config \in {1, 2}, testOk \in BOOLEAN :
          \E o \in IF testOk THEN ClusterOutcomesNow(config) ELSE {Refused} :
             ConnectRequest(config, testOk, o)
    \/ DisconnectRequest
    \/ \E cookie \in {NoClient, 1, 2} : GetClientFromRequestCall(cookie)
    \/ \E o \in ClusterOutcomesNow(clickhouseClient) : DetectClusterConfigCall(o)
    \/ Tick

SpecSession == Init /\ [][SessionNext]_vars

\* the SQL of the routes that take a database and a table from the query string
SqlNext ==
    \/ InitCalls({1})
    \/ \E route \in SqlRoutes, database \in SampleIdentifiers,
          table \in SampleIdentifiers :
          \E details \in IF route = "tables" THEN BOOLEAN ELSE {FALSE} :
             SqlRequest(route, database, table, details)

SpecSql == Init /\ [][SqlNext]_vars

\* the rate limiter when every identifier is always checked with its own limit
LimitNext ==
    \/ \E i \in RateIds, w \in 1..MaxWindow : CheckRateLimitCall(i, LimitOf(i), w)
    \/ \E i \in RateIds : GetRateLimitStatusCall(i, LimitOf(i))
    \/ Tick

SpecLimit == Init /\ [][LimitNext]_vars

----------------------------------------------------------------------------
(* Properties *)

RouteOps == {"tables", "lineage", "mv"}

\* C1: in the lineage endpoint, when system.dependencies was probed present and
\* the query against it throws, the request still completes with a successful
\* response that carries the nodes
C1_LineageSurvivesTier1Failure ==
    (last.op = "lineage" /\ last.tier1 = "threw")
        => (last.status = 200 /\ Len(last.nodes) = Len(LineageTables))

\* C2: in the materialized-views endpoint, a view whose tier-1 query succeeded
\* has exactly the tier-1 edges as its sources and targets, and neither the
\* metadata tier nor the FROM or TO parsing was evaluated for it
C2_Tier1UsedVerbatim ==
    last.op = "mv" =>
        \A i \in 1..Len(last.views) :
            LET v == last.views[i] IN
            v.tier1 = "ok" =>
                /\ v.sources = v.tier1Sources
                /\ v.targets = v.tier1Targets
                /\ ~v.metadataEvaluated
                /\ ~v.fromEvaluated
                /\ ~v.toEvaluated

\* the metadata fields of a row name no edge
NoMetadataEdge(row) ==
    \/ ~(Truthy(row.dependencies_database) /\ Truthy(row.dependencies_table))
    \/ MetadataSources(row) = << >>

\* the CREATE statement of a row matches neither expression, or is no string, in
\* which case matching it throws
NoCreateMatch(row) ==
    row.create_table_query.kind = "string" =>
        /\ IsNull(FromMatchOf[row.create_table_query.v])
        /\ IsNull(ToMatchOf[row.create_table_query.v])

\* the i-th view of the last materialized-views response got nothing from any tier
AllTiersEmpty(i) ==
    /\ last.views[i].tier1 \in {"absent", "threw"}
    /\ NoMetadataEdge(SampleViews[last.rows[i]])
    /\ NoCreateMatch(SampleViews[last.rows[i]])

\* C3: in the materialized-views endpoint, once the view query has returned, the
\* request succeeds with one view per row the handler processes (the rows left by
\* the database filter of lines 21-23), in order; a view whose tier 1 is absent
\* or threw, whose metadata names no edge and whose CREATE statement matches
\* nothing or cannot be matched has sources = [] and targets = []
C3_EmptyViewsAreKept ==
    (last.op = "mv" /\ last.listed) =>
        /\ last.status = 200
        /\ last.total = Len(last.rows)
        /\ Len(last.views) = Len(last.rows)
        /\ \A i \in 1..Len(last.views) :
              /\ last.views[i].database = SampleViews[last.rows[i]].database
              /\ last.views[i].name = SampleViews[last.rows[i]].name
              /\ AllTiersEmpty(i) =>
                    (last.views[i].sources = << >> /\ last.views[i].targets = << >>)

\* a response that holds a view whose processing threw and was caught, next to a
\* view whose tier-1 query threw and whose other tiers found nothing
C3_Witness ==
    /\ last.op = "mv"
    /\ last.listed
    /\ last.status = 200
    /\ \E i, j \in 1..Len(last.views) :
          /\ last.views[i].caught
          /\ last.views[i].sources = << >>
          /\ ~last.views[j].caught
          /\ last.views[j].tier1 = "threw"
          /\ AllTiersEmpty(j)
          /\ last.views[j].targets = << >>

\* C4: after a reconnect, getSystemCapabilities and getClickHouseVersion return
\* no value that was cached under the previous connection
C4_ReconnectInvalidatesProbes ==
    last.op \in {"getClickHouseVersion", "getSystemCapabilities"} => ~last.stale

VersionUnparseable(server) == VersionMatch(ServerVersions[server]) = << >>

\* C6: getClickHouseVersion never throws, and when the version query fails or
\* returns a string that does not begin with digits.digits.digits it returns 19.0.0
C6_UnparseableVersionIsOldest ==
    last.op = "getClickHouseVersion" =>
        /\ ~last.threw
        /\ (last.outcome = "error" \/ (last.outcome = "row" /\ VersionUnparseable(last.client)))
              => (last.value.major = 19 /\ last.value.minor = 0 /\ last.value.patch = 0)

\* C7: the tables endpoint runs exactly one columns query, the extended one if
\* and only if the version is at least 20.1 or the codec_expression probe was true
C7_ExtendedIffAtLeast20_1 ==
    (last.op = "tables" /\ last.variant # "none") =>
        /\ last.columnQueries = 1
        /\ last.variant = "extended" <=>
              \/ last.version.major > 20
              \/ (last.version.major = 20 /\ last.version.minor >= 1)
              \/ last.hasCodecColumn

\* C8: when the codec_expression probe reports absent and the version string of
\* the server cannot be parsed, or the version query fails, the tables endpoint
\* runs the basic columns query
C8_UnknownVersionRunsBasic ==
    (/\ last.op = "tables"
     /\ last.variant # "none"
     /\ ~last.hasCodecColumn
     /\ (VersionUnparseable(last.client) \/ last.versionOutcome = "error"))
        => last.variant = "basic"

\* C9: checkTableExists and checkColumnExists never throw, return false on every
\* upstream error, return true only when the probe query returned a row, and
\* return false without sending a query when the database or table is invalid
C9_ProbesNeverThrow ==
    last.op \in {"checkTableExists", "checkColumnExists"} =>
        /\ ~last.threw
        /\ IsError(last.outcome) => ~last.value
        /\ last.value => (last.outcome = "rows1" /\ last.sent = 1)
        /\ ~validateTableIdentifier(last.database, last.table).success
              => (~last.value /\ last.sent = 0)

\* a probe of a valid table that was sent and refused with permission denied
C9_Witness ==
    /\ last.op = "checkTableExists"
    /\ validateTableIdentifier(last.database, last.table).success
    /\ last.outcome = "permission_denied"
    /\ last.sent = 1
    /\ ~last.threw
    /\ ~last.value

\* one step of the response cache, as C10 describes it
GetHonoursExpiry ==
    /\ last'.op = "set" =>
          /\ MapHas(cache', last'.key)
          /\ MapGet(cache', last'.key) =
                [key |-> last'.key, data |-> last'.data,
                 expiresAt |-> now + last'.ttl * 1000,
                 createdAt |-> now, lastAccessed |-> now, hits |-> 0]
    /\ (last'.op = "get" /\ MapHas(cache, last'.key)) =>
          LET entry == MapGet(cache, last'.key) IN
          IF now <= entry.expiresAt
          THEN /\ last'.value = Some(entry.data)
               /\ MapHas(cache', last'.key)
               /\ MapGet(cache', last'.key) =
                     [entry EXCEPT !.hits = entry.hits + 1, !.lastAccessed = now]
          ELSE /\ last'.value = None
               /\ ~MapHas(cache', last'.key)

\* C10: set(key, data, ttl) stores data with the expiry now + ttl seconds; a get
\* of a stored key at a time up to and including its expiry returns the data, adds
\* one to the hits and sets lastAccessed to the time; a get after the expiry
\* returns null and removes the entry
C10_GetHonoursExpiry == [][GetHonoursExpiry]_vars

\* a get that found its entry expired and removed it, while the table holds an
\* entry that a get returned at the very millisecond of its expiry
C10_Witness ==
    /\ last.op = "get"
    /\ last.found = "expired"
    /\ last.value = None
    /\ ~MapHas(cache, last.key)
    /\ \E i \in 1..Len(cache) :
          /\ cache[i].hits > 0
          /\ cache[i].lastAccessed = cache[i].expiresAt
          /\ cache[i].createdAt < cache[i].lastAccessed

\* the entries of a table, as a set
Entries(m) == {m[i] : i \in 1..Len(m)}

\* one step of the response cache, as C11 describes it
CleanupEvictsOldest ==
    /\ Len(cache') <= HardCap
    /\ last'.op = "set" =>
          LET stored == MapSet(cache, NewEntry(last'.key, last'.data, last'.ttl, now))
              live == {e \in Entries(stored) : ~(now > e.expiresAt)}
              kept == Entries(cache')
              evicted == live \ kept
          IN IF Len(stored) > HardCap
             THEN /\ kept \subseteq live
                  /\ Len(cache') = IF Cardinality(live) > SoftCap THEN SoftCap
                                   ELSE Cardinality(live)
                  /\ \A r \in kept, e \in evicted : r.lastAccessed >= e.lastAccessed
             ELSE cache' = stored

\* C11: the table never holds more than the hard cap of entries; a set that
\* pushes the size over the hard cap removes every expired entry and then, if
\* more than the soft cap remain, keeps exactly the soft cap, none of them
\* accessed earlier than an evicted entry that had not expired; any other set
\* leaves the table as stored
C11_CleanupEvictsOldest == [][CleanupEvictsOldest]_vars

\* a set that pushed the size over the hard cap while one entry had expired, and
\* left the soft cap of entries: one purged, one evicted by age, one kept
C11_Witness ==
    /\ last.op = "set"
    /\ last.stored > HardCap
    /\ last.expired = 1
    /\ Len(cache) = SoftCap
    /\ last.stored - last.expired > SoftCap

\* the params objects that hold the properties of params, inserted in any order
Reorderings(params) ==
    { q \in [1..Len(params) -> Entries(params)] :
         \A i, j \in 1..Len(params) : i # j => q[i] # q[j] }

\* C12: generateKey returns the same key for every params object that holds the
\* same key/value pairs, whatever the order they were inserted in
C12_KeyIgnoresInsertionOrder ==
    last.op = "generateKey" =>
        \A q \in Reorderings(last.params) : generateKey(last.prefix, q) = last.key

\* a key made of three properties, none an array index, that were not inserted
\* in sorted order
C12_Witness ==
    /\ last.op = "generateKey"
    /\ Len(last.params) = 3
    /\ \A i \in 1..3 : ~IsArrayIndex(last.params[i].key)
    /\ StringLess(last.params[2].key, last.params[1].key)
    /\ \E q \in Reorderings(last.params) : q # last.params

\* C13: a call of checkRateLimit for an identifier that has made fewer than N
\* calls in the window is allowed, with current one more than the calls before
\* and remaining N - current; a call after N calls in the window is refused with
\* resetIn > 0
C13_LimitCountsWithinWindow ==
    last.op = "checkRateLimit" =>
        /\ last.allowed <=> last.before < last.limit
        /\ last.allowed => (/\ last.current = last.before + 1
                            /\ last.remaining = last.limit - last.current)
        /\ ~last.allowed => last.resetIn > 0

\* one step of the rate limiter, as C14 describes it
WindowIsShared ==
    IF last'.op = "checkRateLimit"
    THEN LET elapsed == now - windowStart > last'.window * 1000 IN
         /\ last'.reset = elapsed
         /\ windowStart' = IF elapsed THEN now ELSE windowStart
         /\ \A other \in RateIds \ {last'.identifier} :
               requestCounts'[other] = IF elapsed THEN 0 ELSE requestCounts[other]
         /\ requestCounts'[last'.identifier] =
               IF elapsed THEN 1
               ELSE IF requestCounts[last'.identifier] >= last'.limit
               THEN requestCounts[last'.identifier]
               ELSE requestCounts[last'.identifier] + 1
    ELSE UNCHANGED << requestCounts, windowStart >>

EndsAt(e, i) ==
    /\ e.pc = "threw"
    /\ e.sent = i
    /\ Len(e.waits) = i - 1
    /\ e.thrown = << parseClickHouseError(e.errors[i]) >>

C17_RetriesOnlyTransientErrors ==
    execution.pc # "idle" =>
      \A i \in 1..Len(execution.types) :
         execution.sent > i
           => execution.types[i] \in {"CONNECTION_ERROR", "TIMEOUT", "UNKNOWN"}

\* the attempts, waits and result of the call in flight are those of a loop of at
\* most maxRetries attempts with linear backoff
BoundedLinearBackoff ==
    execution.pc # "idle" =>
      LET e == execution
          limit == IF e.options.maxRetries = 0 THEN 3 ELSE e.options.maxRetries
          delay == IF e.options.retryDelay = 0 THEN 1000 ELSE e.options.retryDelay
      IN /\ e.sent <= limit
         /\ e.waits = [k \in 1..Len(e.waits) |-> delay * k]
         /\ Len(e.waits) = IF e.pc = "attempt" THEN e.sent ELSE e.sent - 1
         /\ e.pc = "returned" => e.hasRows /\ Len(e.errors) = e.sent - 1
         /\ e.pc = "threw" =>
              /\ ~e.hasRows
              /\ Len(e.errors) = e.sent
              /\ e.thrown = << parseClickHouseError(e.errors[e.sent]) >>

\* C18: when every upstream call ends, executeQuery ends; it makes at most
\* maxRetries attempts (3 by default), waits retryDelay * k before attempt k+1,
\* returns the rows of the first attempt that succeeds and otherwise throws the
\* classified error of the last attempt.
C18_TerminatesWithinMaxRetries ==
    /\ []BoundedLinearBackoff
    /\ (execution.pc \in {"attempt", "wait"}) ~> ExecutionDone

C18_Witness ==
    /\ execution.pc = "returned"
    /\ execution.options.maxRetries = 0
    /\ execution.sent = 3
    /\ execution.waits = << 1000, 2000 >>
    /\ execution.rows = << "r1" >>

\* C19: executeQuerySafe never throws; it returns {success: true, data: rows,
\* error: null, permissionDenied: false} when executeQuery returns rows and
\* otherwise {success: false, data: null, error: the classified error} with
\* permissionDenied true exactly for PERMISSION_DENIED and quotaExceeded true
\* exactly for QUOTA_EXCEEDED.
C19_SafeNeverThrows ==
    last.op = "executeQuerySafe" /\ last.done =>
      LET r == last.result
          e == last.call
      IN /\ ~r.threw
         /\ IF e.pc = "returned"
            THEN /\ r.success /\ r.data = << e.rows >> /\ r.error = << >>
                 /\ ~r.permissionDenied
            ELSE LET error == parseClickHouseError(e.errors[e.sent]) IN
                 /\ ~r.success /\ r.data = << >> /\ r.error = << error >>
                 /\ r.permissionDenied <=> error.type = "PERMISSION_DENIED"
                 /\ "quotaExceeded" \in r.has
                 /\ r.quotaExceeded <=> error.type = "QUOTA_EXCEEDED"

C19_Witness ==
    /\ last.op = "executeQuerySafe" /\ last.done
    /\ ~last.result.threw /\ ~last.result.success
    /\ last.result.permissionDenied
    /\ last.call.errors = << [message |-> {}, code |-> Num(ACCESS_DENIED)] >>

\* a response that carried no error
Succeeded(response) ==
    \/ response.op = "cachedRoute" /\ response.status = 200
    \/ response.op = "withCache" /\ response.kind \in {"ok", "cached"}

\* the step is a request that repeats the request answered last, which
\* succeeded, within the TTL of its response
RepeatsWithinTtl ==
    /\ last.op \in {"cachedRoute", "withCache"}
    /\ Succeeded(last)
    /\ now' = now
    /\ last'.op = last.op
    /\ last'.key = last.key
    /\ now <= last.expiresAt

\* C15 as stated: when the same GET request to a cached endpoint or to a handler
\* wrapped by withCache is issued twice in sequence within the TTL and the first
\* succeeded, the second response carries cached: true and no upstream query is
\* issued for it.
C15_SecondIsCached ==
    [][RepeatsWithinTtl => last'.cached /\ last'.sent = 0]_vars

\* C15 amended: the second response carries cached: true and no upstream query is
\* issued for it, except that a handler wrapped by withCache answers
\* RATE_LIMIT_EXCEEDED, without calling the handler, when the rate limiter
\* refuses the second request.
C15_SecondIsCachedOrRefused ==
    [][RepeatsWithinTtl =>
         /\ last'.sent = 0
         /\ \/ last'.cached
            \/ last'.op = "withCache" /\ last'.kind = "RATE_LIMIT_EXCEEDED"]_vars

C15_Witness ==
    /\ last.op = "cachedRoute" /\ last.route = "query_analyzer"
    /\ last.status = 200 /\ last.cached /\ last.sent = 0
    /\ now = TickMs
    /\ MapGet(cache, last.key).createdAt = 0

\* C20: the status of a failed response is 403 exactly when the upstream error
\* that caused the failure is permission-denied, 429 exactly when it is
\* quota-exceeded, and 500 for every other class.
C20_StatusFollowsErrorClass ==
    last.op = "cachedRoute" /\ last.cause \notin {"none", "earlier"} =>
      /\ last.status = 403 <=> last.cause = "PERMISSION_DENIED"
      /\ last.status = 429 <=> last.cause = "QUOTA_EXCEEDED"
      /\ last.cause \notin {"PERMISSION_DENIED", "QUOTA_EXCEEDED"} => last.status = 500

\* the entries of the cache are responses without an error
NoErrorCached ==
    \A i \in 1..Len(cache) :
       LET e == cache[i] IN
       /\ e.key = << "id1" >> => e.data = "ok"
       /\ e.key[1] \in CachedRoutes => e.data \in RowSets
       /\ e.key = ClusterKey => e.data \in {"clustered", "standalone", "single"}

\* a request that did not succeed stores nothing under its key
FailureStoresNothing ==
    /\ last'.op \in {"cachedRoute", "withCache"}
    /\ last' # last
    /\ ~Succeeded(last')
    => (MapHas(cache', last'.key) =>
          /\ MapHas(cache, last'.key)
          /\ MapGet(cache', last'.key) = MapGet(cache, last'.key))

\* C21: the response cache never holds an error response: the cached routes and
\* withCache store an entry only after a successful query, so a failed,
\* rate-limited or permission-denied request leaves nothing to replay.
C21_NoErrorIsCached == []NoErrorCached /\ [][FailureStoresNothing]_vars

C21_Witness ==
    /\ last.op = "withCache" /\ last.kind = "error" /\ last.sent = 1
    /\ ~MapHas(cache, last.key)
    /\ Len(cache) > 0

\* the cluster_config entry of the cache is live at the current time
ClusterConfigLive ==
    /\ MapHas(cache, ClusterKey)
    /\ ~(now > MapGet(cache, ClusterKey).expiresAt)

\* the cache holds config under cluster_config, stored at the current time
ClusterConfigStored(m, config) ==
    /\ MapHas(m, ClusterKey)
    /\ MapGet(m, ClusterKey).data = config
    /\ MapGet(m, ClusterKey).expiresAt = now + CacheTTL("CLUSTER_CONFIG") * 1000

DetectClusterConfigStep ==
    last'.op = "detectClusterConfig" =>
      /\ ~last'.threw
      /\ IF ClusterConfigLive
         THEN /\ last'.sent = 0
              /\ last'.value = MapGet(cache, ClusterKey).data
         ELSE /\ last'.sent = 1
              /\ IF last'.outcome.kind = "rows"
                 THEN ClusterConfigStored(cache', last'.value)
                 ELSE IF ErrorTypeOf(last'.outcome.error) = "PERMISSION_DENIED"
                 THEN last'.value = "single" /\ ClusterConfigStored(cache', "single")
                 ELSE last'.value = "defaults" /\ ~MapHas(cache', ClusterKey)

\* C22: detectClusterConfig never throws; a permission-denied query gives the
\* single-node configuration and caches it, any other failure gives the defaults
\* and caches nothing, and a live cached configuration is returned without an
\* upstream query.
C22_ClusterConfigNeverThrows == [][DetectClusterConfigStep]_vars

C22_Witness ==
    /\ last.op = "detectClusterConfig"
    /\ last.value = "single" /\ last.sent = 0 /\ ~last.threw
    /\ MapGet(cache, ClusterKey).hits = 1

\* the source that the table reference of the FROM clause names
FromClauseSource(r) ==
    << [database |-> IF IsNull(r.db) THEN r.database ELSE Val(r.db), table |-> r.tbl] >>

\* C23: when neither tier 1 nor the metadata yields a source, the source is the
\* table of the first FROM clause of the CREATE statement, without its
\* backticks, in the database it is qualified with or else in that of the view.
C23_FromClauseGivesSource ==
    last.op = "parseFrom" => last.sources = FromClauseSource(last)

\* the same, for statements in which no identifier before the clause ends in from
C23_HoldsWithoutFromInNames ==
    last.op = "parseFrom" /\ Len(last.select) < 6 => last.sources = FromClauseSource(last)

\* c is one of [a-zA-Z0-9_]
IsWordChar(c) == c \in WordChars

\* C24: escapeIdentifier returns its input without the characters outside
\* [a-zA-Z0-9_], in their order: the output holds only such characters, an input
\* made only of them comes back unchanged, and a second application changes
\* nothing.
C24_EscapeKeepsWordChars ==
    last.op = "escapeIdentifier" =>
      /\ last.output = SelectSeq(last.input, IsWordChar)
      /\ \A i \in 1..Len(last.output) : last.output[i] \in WordChars
      /\ (\A i \in 1..Len(last.input) : last.input[i] \in WordChars)
           => last.output = last.input
      /\ last.again = last.output

C24_Witness ==
    /\ last.op = "escapeIdentifier"
    /\ last.input = << "'", ";", "a" >>
    /\ last.output = << "a" >>

\* the call of caller c was begun on the connection that is still the current one
OnCurrentConnection(c) ==
    /\ Calls(execution)[c].pc # "idle"
    /\ ~Calls(execution)[c].superseded

\* the call of caller c has sent probes
RanDetection(c) ==
    Calls(execution)[c].pc = "probing"
      \/ (Calls(execution)[c].pc = "done" /\ Len(Calls(execution)[c].flags) > 0)

\* C25: of the getSystemCapabilities calls begun on one connection, only one
\* runs the four-probe detection, and all that have returned got the same
\* profile.
C25_DetectionRunsOnce ==
    \A c1, c2 \in Callers :
       (c1 # c2 /\ OnCurrentConnection(c1) /\ OnCurrentConnection(c2)) =>
          /\ ~(RanDetection(c1) /\ RanDetection(c2))
          /\ (Calls(execution)[c1].pc = "done" /\ Calls(execution)[c2].pc = "done")
               => Calls(execution)[c1].value = Calls(execution)[c2].value

\* C25, the second half alone: two calls begun on one connection that have both
\* returned got the same profile.
C25_SameProfileForAll ==
    \A c1, c2 \in Callers :
       (/\ c1 # c2
        /\ OnCurrentConnection(c1) /\ OnCurrentConnection(c2)
        /\ Calls(execution)[c1].pc = "done" /\ Calls(execution)[c2].pc = "done")
         => Calls(execution)[c1].value = Calls(execution)[c2].value

\* C26: the stored capability profile was probed on the connection that is the
\* current one, also when initClickHouseClient ran while its probes were awaited.
C26_StoredProfileIsCurrent ==
    ~IsNull(systemCapabilities) => ~capsStale

\* the cluster configuration that a query of the server of config gives
ClusterConfigOfServer(config) == ClusterConfigOf(ServerClusters(config))

\* C27: a cluster configuration answered on a connection is not one that was
\* cached while connected with another configuration: an answer that says
\* clustered or standalone says what the current server is.
C27_CacheFollowsConfig ==
    /\ (last.op = "connect" /\ last.status = 200
          /\ last.clusterConfig \in {"clustered", "standalone"})
         => last.clusterConfig = ClusterConfigOfServer(clickhouseClient)
    /\ (last.op = "detectClusterConfig" /\ last.value \in {"clustered", "standalone"})
         => last.value = ClusterConfigOfServer(clickhouseClient)

\* C28: the client that getClientFromRequest returns is the one of the cookie of
\* the request; without the cookie the call throws.
C28_ClientFollowsCookie ==
    last.op = "getClientFromRequest" =>
       IF last.cookie = NoClient THEN last.threw
       ELSE ~last.threw /\ last.client = last.cookie

\* every value that the query embeds has only characters of [a-zA-Z0-9_]
OnlyCleanValues(sql) ==
    \A i \in 1..Len(sql) :
       sql[i].kind = "value" =>
          \A j \in 1..Len(sql[i].text) : sql[i].text[j] \in WordChars

\* C29: every query sent upstream embeds only request values made of characters
\* of [a-zA-Z0-9_].
C29_OnlyCleanIdentifiersInSql ==
    last.op = "sql" =>
       \A q \in 1..Len(last.queries) : OnlyCleanValues(last.queries[q])

\* C29 for the probe alone: the query of checkTableExists embeds only values
\* made of characters of [a-zA-Z0-9_].
C29_ProbeEmbedsCleanIdentifiers ==
    (last.op = "sql" /\ last.route = "checkTableExists") =>
       \A q \in 1..Len(last.queries) : OnlyCleanValues(last.queries[q])

\* the stored count of every identifier is within its limit
CountWithinLimit == \A i \in RateIds : requestCounts[i] <= LimitOf(i)

\* one step of the rate limiter, as C30 states it
AllowedAddsOne ==
    IF last'.op = "checkRateLimit" /\ last'.allowed
    THEN requestCounts' =
            [requestCounts EXCEPT ![last'.identifier] = @ + 1]
    ELSE UNCHANGED << requestCounts, windowStart >>

AllowedAddsOneOrRestarts ==
    IF last'.op = "checkRateLimit" /\ last'.allowed
    THEN IF last'.reset
         THEN /\ requestCounts' =
                   [i \in RateIds |-> IF i = last'.identifier THEN 1 ELSE 0]
              /\ windowStart' = now
         ELSE /\ requestCounts' =
                   [requestCounts EXCEPT ![last'.identifier] = @ + 1]
              /\ windowStart' = windowStart
    ELSE UNCHANGED << requestCounts, windowStart >>

====
